---- MODULE Spec2Model ----
(***************************************************************************)
(* A model of the Ozon -> Telegram size-change notifier.  The repository   *)
(* holds two near-duplicate programs, src/src/index.js and                 *)
(* src/src/main.js; both default to the same database file, so the model   *)
(* has one persistent products table and a variable, impl, saying which    *)
(* program the running process is.                                         *)
(*                                                                         *)
(* Encoding.  A nullable JavaScript value is a sequence: <<>> is           *)
(* null/undefined and <<v>> is the value v.  A SHA-256 digest is the       *)
(* tuple <<"sha256", s>> of the string s that was hashed (collisions       *)
(* aside, the digest is injective).  JavaScript runs a callback to its     *)
(* next await without interleaving: a batch whose pc is "loop" or          *)
(* "commit" holds the thread, and no other action fires meanwhile (Busy).  *)
(***************************************************************************)
EXTENDS Integers, Sequences, FiniteSets, TLC

(***************************************************************************)
(* Bounds of the model.  BatchSize, SubChunk and PageSize stand for the    *)
(* program's 1000, 100 and 1000, scaled down so that a scan of three       *)
(* offers has two pages, two batches and two fallback sub-chunks.          *)
(***************************************************************************)
MaxScans == 2
MaxTicks == 3
MaxChanges == 1
MaxListings == 1
MaxRestarts == 1
MaxFaults == 2
MaxEvents == 3
BatchSize == 2
SubChunk == 1
PageSize == 2
MaxChats == 3
MaxPaged == 5

\* pLimit(2)
Concurrency == 2

Offers == {"o1", "o2", "o3"}
CatalogOrder == <<"o1", "o2", "o3">>
Times == {"", "t1", "t2"}
Modes == {"DIMENSIONS", "ATTRIBUTE", "BOTH"}
Impls == {"index", "main"}

Null == <<>>
Some(v) == <<v>>

Min(a, b) == IF a < b THEN a ELSE b

(***************************************************************************)
(* Remote payloads.  The /v3/product/info/list item of an offer is one of  *)
(* InfoPayloads, the /v4/product/info/attributes item one of AttrPayloads. *)
(***************************************************************************)
NoDirect ==
    [depth |-> Null, width |-> Null, height |-> Null, dimension_unit |-> "",
     weight |-> Null, weight_unit |-> ""]

Obj(depth, length, width, height, weight, unit, weight_unit) ==
    [depth |-> depth, length |-> length, long |-> Null, width |-> width,
     height |-> height, weight |-> weight, dimension_unit |-> "",
     length_unit |-> "", width_unit |-> "", height_unit |-> "",
     unit |-> unit, weight_unit |-> weight_unit]

EmptyObj == Obj(Null, Null, Null, Null, Null, "", "")

InfoItem(id, name, direct, dimensions) ==
    [id |-> id, product_id |-> 0, name |-> name,
     depth |-> direct.depth, width |-> direct.width, height |-> direct.height,
     dimension_unit |-> direct.dimension_unit, weight |-> direct.weight,
     weight_unit |-> direct.weight_unit,
     dimensions |-> dimensions, dimension |-> Null, package_dimensions |-> Null]

InfoPayloads ==
    << \* 1: direct fields, millimetres and grams
       InfoItem(11, "A",
                [depth |-> Some(100), width |-> Some(50), height |-> Some(20),
                 dimension_unit |-> "", weight |-> Some(300), weight_unit |-> "g"],
                Null),
       \* 2: direct fields in centimetres, depth 120 mm
       InfoItem(11, "A",
                [depth |-> Some(12), width |-> Some(5), height |-> Some(2),
                 dimension_unit |-> "CM", weight |-> Some(300), weight_unit |-> ""],
                Null),
       \* 3: payload 1 renamed
       InfoItem(11, "B",
                [depth |-> Some(100), width |-> Some(50), height |-> Some(20),
                 dimension_unit |-> "", weight |-> Some(300), weight_unit |-> "g"],
                Null),
       \* 4: nested dimensions object only, weight in kilograms
       InfoItem(11, "A", NoDirect,
                Some(Obj(Null, Some(100), Some(50), Some(20), Some(1), "mm", "kg"))),
       \* 5: no id, no name, no dimensions
       InfoItem(0, "", NoDirect, Null) >>

NInfo == Len(InfoPayloads)

Attr(name, attribute_id, values) ==
    [name |-> name, attribute_id |-> attribute_id, values |-> values]

Val(value, text, dictionary_value_id) ==
    [value |-> value, text |-> text, dictionary_value_id |-> dictionary_value_id]

AttrItem(attributes, depth, dimension_unit) ==
    [attributes |-> attributes, depth |-> depth, length |-> Null, long |-> Null,
     width |-> Null, height |-> Null, weight |-> Null,
     dimension_unit |-> dimension_unit, length_unit |-> "", unit |-> "",
     weight_unit |-> ""]

AttrPayloads ==
    << \* 1
       AttrItem(<< Attr("Razmer", 1, << Val(Some("M"), Null, Null),
                                         Val(Some("L"), Null, Null) >>),
                   Attr("Cvet", 2, << Val(Some("red"), Null, Null) >>) >>,
                Null, ""),
       \* 2: the values of payload 1 in another order
       AttrItem(<< Attr("Razmer", 1, << Val(Some("L"), Null, Null),
                                         Val(Null, Some("M"), Null) >>),
                   Attr("Cvet", 2, << Val(Some("red"), Null, Null) >>) >>,
                Null, ""),
       \* 3: another size, and a depth among the root fields
       AttrItem(<< Attr("Size EU", 3, << Val(Some(""), Null, Some("XL")) >>) >>,
                Some(13), "cm") >>

NAttr == Len(AttrPayloads)

\* An attributes-endpoint response that carries no item for the offer.
NoAttrItem == [attributes |-> <<>>, missing |-> TRUE]

(***************************************************************************)
(* Unit normalisation.                                                     *)
(***************************************************************************)
ToLowerCase(u) ==
    CASE u = "MM" -> "mm"
      [] u = "CM" -> "cm"
      [] u = "M" -> "m"
      [] u = "G" -> "g"
      [] u = "KG" -> "kg"
      [] OTHER -> u

\* A source value is null (Null), a number (Some(n)) or a string (Str(s)).
Str(s) == <<"str", s>>

\* Number(val): a number is itself; the empty and the blank string convert to 0,
\* a numeric string to its number, any other string to NaN, written Null.
Number(val) ==
    IF Len(val) = 1 THEN val
    ELSE CASE val[2] = "" -> Some(0)
           [] val[2] = " " -> Some(0)
           [] val[2] = "0" -> Some(0)
           [] val[2] = "12" -> Some(12)
           [] OTHER -> Null

\* if (val == null) return null; x = Number(val); if (!isFinite(x)) return null; ...
mm(val, unit) ==
    IF val = Null THEN Null
    ELSE IF Number(val) = Null THEN Null
    ELSE LET x == Number(val)[1]
             u == ToLowerCase(unit)
         IN  IF u = "mm" \/ u = "" THEN Some(x)
             ELSE IF u = "cm" THEN Some(x * 10)
             ELSE IF u = "m" THEN Some(x * 1000)
             ELSE Some(x)

grams(val, unit) ==
    IF val = Null THEN Null
    ELSE IF Number(val) = Null THEN Null
    ELSE LET x == Number(val)[1]
             u == ToLowerCase(unit)
         IN  IF u = "g" \/ u = "" THEN Some(x)
             ELSE IF u = "kg" THEN Some(x * 1000)
             ELSE Some(x)

\* a ?? b
Coalesce(a, b) == IF a # Null THEN a ELSE b
\* a || b on strings
OrStr(a, b) == IF a # "" THEN a ELSE b

Dims(d, w, h, wg) ==
    [depth_mm |-> d, width_mm |-> w, height_mm |-> h, weight_g |-> wg]

NullDims == Dims(Null, Null, Null, Null)

maybe(obj) ==
    Dims(mm(Coalesce(obj.depth, Coalesce(obj.length, obj.long)),
            OrStr(obj.dimension_unit, OrStr(obj.length_unit, obj.unit))),
         mm(obj.width, OrStr(obj.dimension_unit, OrStr(obj.width_unit, obj.unit))),
         mm(obj.height, OrStr(obj.dimension_unit, OrStr(obj.height_unit, obj.unit))),
         grams(obj.weight, obj.weight_unit))

HasAny(c) ==
    c.depth_mm # Null \/ c.width_mm # Null \/ c.height_mm # Null \/ c.weight_g # Null

\* An extraction that fills each field from whichever candidate has it.
extractDimsMerged(it) ==
    LET direct == [EmptyObj EXCEPT !.depth = it.depth, !.width = it.width,
                                   !.height = it.height,
                                   !.dimension_unit = it.dimension_unit,
                                   !.weight = it.weight,
                                   !.weight_unit = it.weight_unit]
        dims == IF it.dimensions # Null THEN it.dimensions[1] ELSE EmptyObj
        c1 == maybe(direct)
        c2 == maybe(dims)
    IN  Dims(Coalesce(c1.depth_mm, c2.depth_mm), Coalesce(c1.width_mm, c2.width_mm),
             Coalesce(c1.height_mm, c2.height_mm), Coalesce(c1.weight_g, c2.weight_g))

\* extractDims (index.js), extractDimsFromInfo (main.js): the same code.
extractDims(it) ==
    LET direct == [EmptyObj EXCEPT !.depth = it.depth, !.width = it.width,
                                   !.height = it.height,
                                   !.dimension_unit = it.dimension_unit,
                                   !.weight = it.weight,
                                   !.weight_unit = it.weight_unit]
        dims == IF it.dimensions # Null THEN it.dimensions[1]
                ELSE IF it.dimension # Null THEN it.dimension[1]
                ELSE IF it.package_dimensions # Null THEN it.package_dimensions[1]
                ELSE EmptyObj
        c1 == maybe(direct)
        c2 == maybe(dims)
    IN  IF HasAny(c1) THEN c1 ELSE c2

\* extractDimsFromAttrsRoot (main.js); the item is {} when the offer has none.
extractDimsFromAttrsRoot(item) ==
    IF "missing" \in DOMAIN item THEN NullDims
    ELSE LET dimension_unit ==
                 OrStr(item.dimension_unit, OrStr(item.length_unit, OrStr(item.unit, "mm")))
             weight_unit == OrStr(item.weight_unit, "g")
         IN  Dims(mm(Coalesce(item.depth, Coalesce(item.length, item.long)), dimension_unit),
                  mm(item.width, dimension_unit),
                  mm(item.height, dimension_unit),
                  grams(item.weight, weight_unit))

(***************************************************************************)
(* Fingerprints.                                                           *)
(***************************************************************************)
Sha256(str) == <<"sha256", str>>

\* s.field ?? null: a field the record lacks reads as null.
Field(s, k) == IF k \in DOMAIN s THEN s[k] ELSE Null

sizeFingerprint(s) ==
    Sha256(<<"d", Field(s, "depth_mm"), "w", Field(s, "width_mm"),
             "h", Field(s, "height_mm"), "wg", Field(s, "weight_g")>>)

\* SIZE_ATTR_PATTERNS, default 'razmer,...,size (Cyrillic in the source)':
\* the attribute names of the payloads whose lower case contains a pattern.
MatchesSizePattern(name) == name \in {"Razmer", "Size EU"}

\* v?.value ?? v?.text ?? v?.dictionary_value_id
ValueOf(v) == Coalesce(v.value, Coalesce(v.text, v.dictionary_value_id))

\* .filter(Boolean) on the mapped values: null and '' are dropped.
RECURSIVE FilterValues(_)
FilterValues(vs) ==
    IF vs = <<>> THEN <<>>
    ELSE LET x == ValueOf(Head(vs))
         IN  IF x = Null \/ x = Some("") THEN FilterValues(Tail(vs))
             ELSE <<x[1]>> \o FilterValues(Tail(vs))

RECURSIVE PickFrom(_)
PickFrom(list) ==
    IF list = <<>> THEN <<>>
    ELSE LET a == Head(list)
         IN  IF MatchesSizePattern(a.name)
             THEN <<Attr(a.name, a.attribute_id, FilterValues(a.values))>>
                  \o PickFrom(Tail(list))
             ELSE PickFrom(Tail(list))

pickSizeAttributes(attrsItem) == PickFrom(attrsItem.attributes)

\* The order of Array.prototype.sort() on the value strings of the payloads.
StrRank(s) ==
    CASE s = "L" -> 1 [] s = "M" -> 2 [] s = "XL" -> 3 [] s = "red" -> 4 [] OTHER -> 5

RECURSIVE Insert(_, _)
Insert(x, sorted) ==
    IF sorted = <<>> THEN <<x>>
    ELSE IF StrRank(x) <= StrRank(Head(sorted)) THEN <<x>> \o sorted
    ELSE <<Head(sorted)>> \o Insert(x, Tail(sorted))

RECURSIVE Sort(_)
Sort(vs) == IF vs = <<>> THEN <<>> ELSE Insert(Head(vs), Sort(Tail(vs)))

\* A fingerprint that serializes the values in the order they arrive.
attrFingerprintUnsorted(arr) ==
    Sha256([k \in 1..Len(arr) |->
              <<"n", arr[k].name, "id", arr[k].attribute_id, "v", arr[k].values>>])

attrFingerprint(arr) ==
    Sha256([k \in 1..Len(arr) |->
              <<"n", arr[k].name, "id", arr[k].attribute_id, "v", Sort(arr[k].values)>>])

\* chunk(arr, n)
chunk(arr, n) ==
    [k \in 1..((Len(arr) + n - 1) \div n) |->
        SubSeq(arr, (k - 1) * n + 1, Min(k * n, Len(arr)))]


(***************************************************************************)
(* State.                                                                  *)
(***************************************************************************)
VARIABLES
    impl,         \* which program the process runs: "index" or "main"
    mode,         \* SIZE_TRACKING_MODE
    notifyOnNew,  \* NOTIFY_ON_NEW_PRODUCT (read by index.js only)
    TRACK_OFFER_IDS, \* the allow-list of offers; <<>> when none is configured
    chats,        \* the chats table as getChats reads it: chat ids in ascending order
    calc,         \* a helper function applied on its own: its name, arguments and result
    catalog,      \* remote: the offers /v3/product/list returns, in order
    remote,       \* remote: per offer, info payload p, updated_at t, attribute payload a
    db,           \* the products table
    driver,       \* where run() (main.js) or loop() (index.js) stands
    isScanning,   \* main.js:574
    now,          \* timer firings so far; datetime('now') of a commit
    scans,        \* per scan slot: scanOnce and the tick or loop turn that called it
    tasks,        \* per scan slot: its processBatch calls
    hist          \* history: remote changes, restarts, faults, notifications

vars == <<impl, mode, notifyOnNew, TRACK_OFFER_IDS, chats, calc, catalog, remote, db, driver,
          isScanning, now, scans, tasks, hist>>

config == <<impl, mode, notifyOnNew, TRACK_OFFER_IDS>>

ScanIds == 1..MaxScans

\* The batches of one scan: at most ceil(offers / batch size).
BatchIds == 1..((Len(CatalogOrder) + BatchSize - 1) \div BatchSize)

\* stmtGetProd.get() found no row: undefined, every field of which reads as null.
NoRow ==
    [present |-> FALSE, offer_id |-> "", product_id |-> 0, name |-> "", updated_at |-> "",
     dim_hash |-> <<>>, depth_mm |-> <<>>, width_mm |-> <<>>, height_mm |-> <<>>,
     weight_g |-> <<>>, attr_hash |-> <<>>, last_seen_at |-> 0]
NoNote == [kind |-> "none"]

\* No helper function is applied on its own.
NoCalc == [fn |-> "none"]

\* No call of notifyAll yet.
NoSend == [to |-> <<>>, j |-> 1, log |-> <<>>]

\* No response to the page request has arrived yet.
NoPage == Null

NoScan == [pc |-> "none", last_id |-> "", offers |-> <<>>, seq |-> 0, send |-> NoSend,
           page |-> NoPage]

\* The pages and the cursors a server may answer with.
Pages == {<<>>, <<"">>, <<"o1">>}

Cursors == {"", "o2", "o3"}

\* The termination signals the program listens to, none of them received yet.
Signals == {"SIGINT", "SIGTERM"}

NoSignals == [sig \in Signals |-> "no"]

AttrAware == mode = "ATTRIBUTE" \/ mode = "BOTH"

\* A request, a commit or a getChats call may still fail.
MayFail == hist.faults < MaxFaults /\ hist.events < MaxEvents

\* A batch holds the thread from the response that wakes it to its next await.
Busy == \E s \in ScanIds : \E b \in DOMAIN tasks[s] : tasks[s][b].pc \in {"loop", "commit"}

Settled(t) == t.pc \in {"done", "failed"}

\* A scan is "none" before it starts and "returned", "reported" or "unreported"
\* once scanOnce and the catch that follows it are over.
ScanActive(s) == scans[s].pc \in {"paging", "batches", "report"}

\* A slot whose scan is over and whose batches have all settled can be used again.
FreeSlots ==
    {s \in ScanIds : /\ ~ScanActive(s)
                     /\ \A b \in DOMAIN tasks[s] : Settled(tasks[s][b])}

LowestFree == CHOOSE s \in FreeSlots : \A r \in FreeSlots : s <= r

(***************************************************************************)
(* Rows and notifications.                                                 *)
(***************************************************************************)
\* The item of a detail response: the payload, the offer and its updated_at.
\* p = 0 is main.js's placeholder { offer_id } for an offer without a record.
PayloadOf(item) == IF item.p = 0 THEN InfoItem(0, "", NoDirect, Null) ELSE InfoPayloads[item.p]

\* it.id || it.product_id || 0
ProductId(it) == IF it.id # 0 THEN it.id ELSE it.product_id

Row(offer_id, product_id, name, updated_at, dim_hash, dims, attr_hash) ==
    [present |-> TRUE, offer_id |-> offer_id, product_id |-> product_id, name |-> name,
     updated_at |-> updated_at, dim_hash |-> dim_hash,
     depth_mm |-> dims.depth_mm, width_mm |-> dims.width_mm,
     height_mm |-> dims.height_mm, weight_g |-> dims.weight_g,
     attr_hash |-> attr_hash, last_seen_at |-> 0]

RowDims(r) == Dims(r.depth_mm, r.width_mm, r.height_mm, r.weight_g)

\* stmtAllChats.all().map((r) => r.chat_id)
getChats == chats

\* notifyAll, up to its first await: const chats = getChats(), and the loop
\* stands before the first recipient.
notifyAll == [to |-> getChats, j |-> 1, log |-> <<>>]

\* A loop without the try around sendMessage: the first failure ends it.
sendMessageUncaught(send, ok) ==
    [send EXCEPT !.log = Append(@, [chat |-> send.to[send.j], ok |-> ok]),
                 !.j = IF ok THEN @ + 1 ELSE Len(send.to) + 1]

\* notifyAll, one turn of its loop: try { await sendMessage(chatId) } catch {}
sendMessage(send, ok) ==
    [send EXCEPT !.log = Append(@, [chat |-> send.to[send.j], ok |-> ok]),
                 !.j = @ + 1]

DiffLine(field, old, new) == IF old # new THEN <<[field |-> field, old |-> old, new |-> new]>> ELSE <<>>

\* A message that lists all four fields, changed or not.
dimDiffMessageAllFields(offer_id, oldDims, newDims) ==
    [kind |-> "dim", offer_id |-> offer_id,
     lines |-> <<[field |-> "depth_mm", old |-> oldDims.depth_mm, new |-> newDims.depth_mm],
                 [field |-> "width_mm", old |-> oldDims.width_mm, new |-> newDims.width_mm],
                 [field |-> "height_mm", old |-> oldDims.height_mm, new |-> newDims.height_mm],
                 [field |-> "weight_g", old |-> oldDims.weight_g, new |-> newDims.weight_g]>>]

dimDiffMessage(offer_id, oldDims, newDims) ==
    [kind |-> "dim", offer_id |-> offer_id,
     lines |-> DiffLine("depth_mm", oldDims.depth_mm, newDims.depth_mm)
               \o DiffLine("width_mm", oldDims.width_mm, newDims.width_mm)
               \o DiffLine("height_mm", oldDims.height_mm, newDims.height_mm)
               \o DiffLine("weight_g", oldDims.weight_g, newDims.weight_g)]

attrDiffMessage(offer_id) == [kind |-> "attr", offer_id |-> offer_id, lines |-> <<>>]

newProductMessage(offer_id) == [kind |-> "new", offer_id |-> offer_id, lines |-> <<>>]

\* stmtUpsertProd inside txUpsertMany: main.js's statement has no attr_hash column
\* and leaves the stored one (NULL on insert) as it is.
stmtUpsertProd(table, r) ==
    [table EXCEPT ![r.offer_id] =
        [r EXCEPT !.last_seen_at = now,
                  !.attr_hash = IF impl = "main"
                                THEN (IF table[r.offer_id].present
                                      THEN table[r.offer_id].attr_hash ELSE Null)
                                ELSE r.attr_hash]]

\* A commit without a transaction around it, cut short after the first row.
txUpsertFirstOnly(table, rows) ==
    IF rows = <<>> THEN table ELSE stmtUpsertProd(table, Head(rows))

RECURSIVE txUpsertMany(_, _)
txUpsertMany(table, rows) ==
    IF rows = <<>> THEN table
    ELSE txUpsertMany(stmtUpsertProd(table, Head(rows)), Tail(rows))


(***************************************************************************)
(* The scheduler: tick (main.js), loop (index.js), scanOnce, iterOffers.   *)
(***************************************************************************)
\* A tick without the overlap guard.
tickUnguarded == TRUE

\* tick: if (isScanning) return
tickGuard == ~isScanning

\* A tick that resets the flag only on the path where nothing was thrown.
tickResetOnSuccess(threw) == threw

\* tick: finally { isScanning = false }, whether or not scanOnce threw
tickFinally(threw) == FALSE

NewTask(ids) ==
    [pc |-> "queued", ids |-> ids, infoItems |-> <<>>, attrItems |-> <<>>, k |-> 1,
     i |-> 1, prev |-> NoRow, upserts |-> <<>>, note |-> NoNote, send |-> NoSend]

\* A scan that starts all its batches at once.
StartBatchesUnlimited(offerIds) ==
    LET batches == chunk(offerIds, BatchSize)
    IN  [b \in 1..Len(batches) |-> [NewTask(batches[b]) EXCEPT !.pc = "info"]]

\* scanOnce: chunk(offerIds, 1000), then pLimit(2) starts the first two batches.
StartBatches(offerIds) ==
    LET batches == chunk(offerIds, BatchSize)
    IN  [b \in 1..Len(batches) |->
            [NewTask(batches[b]) EXCEPT !.pc = IF b <= Concurrency THEN "info" ELSE "queued"]]

StartScan(s) ==
    /\ scans' = [scans EXCEPT ![s] = [pc |-> "paging", last_id |-> "", offers |-> <<>>,
                                      seq |-> now', send |-> NoSend, page |-> NoPage]]
    /\ tasks' = [tasks EXCEPT ![s] = <<>>]

\* The tick (main.js) or the turn of the loop (index.js) that called scanOnce ends.
\* main.js: finally, and after the first tick run() sets the interval timer.
\* index.js: sleep; when notifyAll threw in the catch, loop() itself rejects.
TurnEnds(threw, reportThrew) ==
    IF impl = "main"
    THEN /\ isScanning' = tickFinally(threw)
         /\ driver' = IF driver = "startup" THEN "timer" ELSE driver
    ELSE /\ driver' = IF reportThrew THEN "dead" ELSE "sleep"
         /\ UNCHANGED isScanning

ScanReturns(s) ==
    /\ scans' = [scans EXCEPT ![s].pc = "returned"]
    /\ TurnEnds(FALSE, FALSE)

\* scanOnce throws: the catch calls notifyAll with the monitoring-error message.
ScanThrows(s) ==
    /\ scans' = [scans EXCEPT ![s].pc = "report", ![s].send = notifyAll]
    /\ UNCHANGED <<isScanning, driver>>

\* run(): await tick() (main.js), loop() (index.js)
Startup ==
    /\ driver = "init"
    /\ now' = now
    /\ IF impl = "main"
       THEN /\ tickGuard
            /\ isScanning' = TRUE
            /\ driver' = "startup"
       ELSE /\ driver' = "scan"
            /\ UNCHANGED isScanning
    /\ StartScan(LowestFree)
    /\ UNCHANGED <<config, chats, calc, catalog, remote, db, hist>>

\* setInterval fires and tick finds no scan in progress.
TickStart ==
    /\ impl = "main" /\ driver = "timer" /\ ~Busy
    /\ now < MaxTicks /\ FreeSlots # {}
    /\ tickGuard
    /\ now' = now + 1
    /\ isScanning' = TRUE
    /\ StartScan(LowestFree)
    /\ UNCHANGED <<config, chats, calc, catalog, remote, db, driver, hist>>

\* setInterval fires and tick returns at once: skip_overlap.
TickSkip ==
    /\ impl = "main" /\ driver = "timer" /\ ~Busy
    /\ now < MaxTicks
    /\ ~tickGuard
    /\ now' = now + 1
    /\ UNCHANGED <<config, chats, calc, catalog, remote, db, driver, isScanning, scans, tasks, hist>>

\* loop: the sleep ends and the next scanOnce is called.
LoopWake ==
    /\ impl = "index" /\ driver = "sleep" /\ ~Busy
    /\ now < MaxTicks /\ FreeSlots # {}
    /\ now' = now + 1
    /\ driver' = "scan"
    /\ StartScan(LowestFree)
    /\ UNCHANGED <<config, chats, calc, catalog, remote, db, isScanning, hist>>

IndexOf(seq, x) == CHOOSE n \in 1..Len(seq) : seq[n] = x

\* for (const it of items) if (it?.offer_id) yield ...: an item without offer_id,
\* written "", is passed over.
Yielded(items) == SelectSeq(items, LAMBDA x : x # "")

\* A paginator that goes on for as long as the server returns a cursor.
iterOffersFollowsCursor(items, last_id) == last_id # ""

\* iterOffers, after a page: if (!items.length) break; ...;
\* if (!last_id || TRACK_OFFER_IDS.length) break; otherwise the next request.
iterOffersContinues(items, last_id) ==
    /\ items # <<>>
    /\ last_id # ""
    /\ TRACK_OFFER_IDS = <<>>

\* iterOffers and scanOnce, from the response to a page request up to the next
\* await: the next page request with the cursor of the response, the start of
\* the batches, or the return when no offer was listed.  When iterOffers is over
\* its cursor is gone.
PageArrives(s, items, last_id) ==
    LET sc == scans[s]
        offers == sc.offers \o Yielded(items)
    IN  IF iterOffersContinues(items, last_id)
        THEN /\ scans' = [scans EXCEPT ![s] = [sc EXCEPT !.page = NoPage, !.last_id = last_id,
                                                         !.offers = offers]]
             /\ UNCHANGED <<tasks, isScanning, driver>>
        ELSE IF offers = <<>>
        THEN /\ scans' = [scans EXCEPT ![s] = [sc EXCEPT !.page = NoPage, !.last_id = "",
                                                         !.pc = "returned"]]
             /\ TurnEnds(FALSE, FALSE)
             /\ UNCHANGED tasks
        ELSE /\ scans' = [scans EXCEPT ![s] = [sc EXCEPT !.page = NoPage, !.last_id = "",
                                                         !.offers = offers, !.pc = "batches"]]
             /\ tasks' = [tasks EXCEPT ![s] = StartBatches(offers)]
             /\ UNCHANGED <<isScanning, driver>>

\* What /v3/product/list has to offer: the catalog, or with an allow-list the
\* offers of the catalog that are on it.
Listed ==
    IF TRACK_OFFER_IDS = <<>> THEN catalog
    ELSE SelectSeq(catalog, LAMBDA o : \E n \in DOMAIN TRACK_OFFER_IDS : TRACK_OFFER_IDS[n] = o)

\* iterOffers: one page of /v3/product/list arrives.  The server returns the
\* offers after the cursor; with the last page it may or may not return a cursor.
PageOk(s) ==
    /\ ~Busy /\ scans[s].pc = "paging" /\ scans[s].page = NoPage
    /\ \E cursor \in BOOLEAN :
        LET sc == scans[s]
            pos == IF sc.last_id = "" THEN 0 ELSE IndexOf(Listed, sc.last_id)
            items == SubSeq(Listed, pos + 1, Min(pos + PageSize, Len(Listed)))
            atEnd == pos + Len(items) = Len(Listed)
            last_id == IF items # <<>> /\ cursor THEN items[Len(items)] ELSE ""
        IN  /\ cursor = (items # <<>>) \/ (~cursor /\ atEnd)
            /\ PageArrives(s, items, last_id)
    /\ UNCHANGED <<config, chats, calc, catalog, remote, db, now, hist>>

\* A server that answers the page request as it likes: any page, items without
\* offer_id among them, and any cursor.  The response is on its way to iterOffers.
\* The pages that list offers are counted up to MaxPaged offers a scan.
PageAny(s) ==
    /\ ~Busy /\ scans[s].pc = "paging" /\ scans[s].page = NoPage
    /\ \E items \in Pages, last_id \in Cursors :
        /\ Len(scans[s].offers) + Len(Yielded(items)) <= MaxPaged
        /\ scans' = [scans EXCEPT ![s].page = Some([items |-> items, last_id |-> last_id])]
    /\ UNCHANGED <<config, chats, calc, catalog, remote, db, driver, isScanning, now, tasks, hist>>

\* iterOffers: const data = await ozonPost(...) resumes with that response.
PageRead(s) ==
    /\ ~Busy /\ scans[s].pc = "paging" /\ scans[s].page # NoPage
    /\ PageArrives(s, scans[s].page[1].items, scans[s].page[1].last_id)
    /\ UNCHANGED <<config, chats, calc, catalog, remote, db, now, hist>>

\* iterOffers: the page request fails, and scanOnce throws.
PageFail(s) ==
    /\ ~Busy /\ scans[s].pc = "paging" /\ scans[s].page = NoPage /\ MayFail
    /\ ScanThrows(s)
    /\ hist' = [hist EXCEPT !.faults = hist.faults + 1, !.events = hist.events + 1]
    /\ UNCHANGED <<config, chats, calc, catalog, remote, db, now, tasks>>

\* The catch's notifyAll: sendMessage to the next recipient answers (ok) or fails.
ReportDeliver(s, ok) ==
    /\ ~Busy /\ scans[s].pc = "report" /\ scans[s].send.j <= Len(scans[s].send.to)
    /\ scans' = [scans EXCEPT ![s].send = sendMessage(@, ok)]
    /\ UNCHANGED <<config, chats, calc, catalog, remote, db, driver, isScanning, now, tasks, hist>>

ReportDeliverOk(s) == ReportDeliver(s, TRUE)

ReportDeliverFail(s) == ReportDeliver(s, FALSE)

\* The catch's notifyAll is over: every recipient was tried.
ReportDone(s) ==
    /\ ~Busy /\ scans[s].pc = "report" /\ scans[s].send.j > Len(scans[s].send.to)
    /\ scans' = [scans EXCEPT ![s].pc = "reported"]
    /\ TurnEnds(TRUE, FALSE)
    /\ UNCHANGED <<config, chats, calc, catalog, remote, db, now, tasks, hist>>

\* The catch's notifyAll throws (getChats fails); main.js swallows it.
ReportThrow(s) ==
    /\ ~Busy /\ scans[s].pc = "report" /\ scans[s].send.log = <<>> /\ MayFail
    /\ scans' = [scans EXCEPT ![s].pc = "unreported"]
    /\ TurnEnds(TRUE, TRUE)
    /\ hist' = [hist EXCEPT !.faults = hist.faults + 1, !.events = hist.events + 1]
    /\ UNCHANGED <<config, chats, calc, catalog, remote, db, now, tasks>>


(***************************************************************************)
(* processBatch: the fetches.                                              *)
(***************************************************************************)
\* What the detail endpoints return for a list of offer ids.
InfoResp(offerIds) ==
    [n \in 1..Len(offerIds) |->
        [offer_id |-> offerIds[n], p |-> remote[offerIds[n]].p,
         updated_at |-> remote[offerIds[n]].t]]

\* What the attributes endpoint returns: an item for each offer that has one.
AttrResp(offerIds) ==
    LET all == [n \in 1..Len(offerIds) |->
                   [offer_id |-> offerIds[n], a |-> remote[offerIds[n]].a]]
        Has(x) == x.a # 0
    IN  SelectSeq(all, Has)

\* new Map(items.map((x) => [x.offer_id, x])).get(offer_id): the last item wins.
MapGet(items, offer_id, default) ==
    LET at == {n \in 1..Len(items) : items[n].offer_id = offer_id}
    IN  IF at = {} THEN default
        ELSE items[CHOOSE n \in at : \A m \in at : m <= n]

AttrsOf(t, offer_id) ==
    LET x == MapGet(t.attrItems, offer_id, [offer_id |-> offer_id, a |-> 0])
    IN  IF x.a = 0 THEN NoAttrItem ELSE AttrPayloads[x.a]

\* The info fetch is over: the attribute fetch follows in the attribute-aware modes.
AfterInfo(t) ==
    IF AttrAware THEN [t EXCEPT !.pc = "attrs", !.k = 1]
    ELSE [t EXCEPT !.pc = "loop", !.i = 1]

\* A scan that reports every batch that throws, not only the first.
TaskSettlesReportsEach(s, b, t2) ==
    LET ts1 == [tasks[s] EXCEPT ![b] = t2]
        queued == {j \in DOMAIN ts1 : ts1[j].pc = "queued"}
        ts2 == IF queued = {} THEN ts1
               ELSE [ts1 EXCEPT ![CHOOSE j \in queued : \A m \in queued : j <= m].pc = "info"]
    IN  /\ tasks' = [tasks EXCEPT ![s] = ts2]
        /\ IF t2.pc = "failed"
           THEN ScanThrows(s)
           ELSE IF scans[s].pc = "batches" /\ \A j \in DOMAIN ts2 : ts2[j].pc = "done"
           THEN ScanReturns(s)
           ELSE UNCHANGED <<scans, isScanning, driver>>

\* processBatch settles: pLimit starts the next queued batch, and Promise.all
\* rejects with the first batch that throws or resolves with the last that returns.
TaskSettles(s, b, t2) ==
    LET ts1 == [tasks[s] EXCEPT ![b] = t2]
        queued == {j \in DOMAIN ts1 : ts1[j].pc = "queued"}
        ts2 == IF queued = {} THEN ts1
               ELSE [ts1 EXCEPT ![CHOOSE j \in queued : \A m \in queued : j <= m].pc = "info"]
    IN  /\ tasks' = [tasks EXCEPT ![s] = ts2]
        /\ IF scans[s].pc = "batches" /\ t2.pc = "failed"
           THEN ScanThrows(s)
           ELSE IF scans[s].pc = "batches" /\ \A j \in DOMAIN ts2 : ts2[j].pc = "done"
           THEN ScanReturns(s)
           ELSE UNCHANGED <<scans, isScanning, driver>>

TaskContinues(s, b, t2) ==
    /\ tasks' = [tasks EXCEPT ![s][b] = t2]
    /\ UNCHANGED <<scans, isScanning, driver>>

\* fetchInfoList answers.
InfoOk(s, b) ==
    LET t == tasks[s][b]
    IN  /\ b \in DOMAIN tasks[s] /\ ~Busy /\ t.pc = "info"
        /\ TaskContinues(s, b, AfterInfo([t EXCEPT !.infoItems = InfoResp(t.ids)]))
        /\ UNCHANGED <<config, chats, calc, catalog, remote, db, now, hist>>

\* fetchInfoList fails: the fallback through fetchInfoV2 in sub-chunks begins.
InfoFail(s, b) ==
    LET t == tasks[s][b]
    IN  /\ b \in DOMAIN tasks[s] /\ ~Busy /\ t.pc = "info" /\ MayFail
        /\ TaskContinues(s, b, [t EXCEPT !.pc = "fallback", !.k = 1])
        /\ hist' = [hist EXCEPT !.faults = hist.faults + 1, !.events = hist.events + 1]
        /\ UNCHANGED <<config, chats, calc, catalog, remote, db, now>>

\* A fallback that gives up at the first sub-chunk that fails.
FallbackStepGivesUp(s, b, ok) ==
    LET t == tasks[s][b]
        chunks == chunk(t.ids, SubChunk)
        got == IF ok THEN t.infoItems \o InfoResp(chunks[t.k]) ELSE t.infoItems
        t1 == [t EXCEPT !.infoItems = got, !.k = t.k + 1]
    IN  /\ b \in DOMAIN tasks[s] /\ ~Busy /\ t.pc = "fallback" /\ (ok \/ MayFail)
        /\ TaskContinues(s, b, IF ok /\ t.k < Len(chunks) THEN t1 ELSE AfterInfo(t1))
        /\ hist' = IF ok THEN hist ELSE [hist EXCEPT !.faults = hist.faults + 1, !.events = hist.events + 1]
        /\ UNCHANGED <<config, chats, calc, catalog, remote, db, now>>

\* The fetchInfoV2 call of sub-chunk k answers (ok) or fails.
FallbackStep(s, b, ok) ==
    LET t == tasks[s][b]
        chunks == chunk(t.ids, SubChunk)
        got == IF ok THEN t.infoItems \o InfoResp(chunks[t.k]) ELSE t.infoItems
        t1 == [t EXCEPT !.infoItems = got, !.k = t.k + 1]
    IN  /\ b \in DOMAIN tasks[s] /\ ~Busy /\ t.pc = "fallback" /\ (ok \/ MayFail)
        /\ TaskContinues(s, b, IF t.k < Len(chunks) THEN t1 ELSE AfterInfo(t1))
        /\ hist' = IF ok THEN hist ELSE [hist EXCEPT !.faults = hist.faults + 1, !.events = hist.events + 1]
        /\ UNCHANGED <<config, chats, calc, catalog, remote, db, now>>

FallbackOk(s, b) == FallbackStep(s, b, TRUE)

FallbackFail(s, b) == FallbackStep(s, b, FALSE)

\* index.js: fetchAttributesV4 per sub-chunk, a failure skipped.
\* main.js: one fetchAttributesV4 call for the batch, outside any try.
AttrsOk(s, b) ==
    LET t == tasks[s][b]
        chunks == chunk(t.ids, SubChunk)
        t1 == IF impl = "index"
              THEN [t EXCEPT !.attrItems = t.attrItems \o AttrResp(chunks[t.k]), !.k = t.k + 1]
              ELSE [t EXCEPT !.attrItems = AttrResp(t.ids)]
    IN  /\ b \in DOMAIN tasks[s] /\ ~Busy /\ t.pc = "attrs"
        /\ TaskContinues(s, b, IF impl = "index" /\ t.k < Len(chunks) THEN t1
                               ELSE [t1 EXCEPT !.pc = "loop", !.i = 1])
        /\ UNCHANGED <<config, chats, calc, catalog, remote, db, now, hist>>

AttrsFail(s, b) ==
    LET t == tasks[s][b]
        chunks == chunk(t.ids, SubChunk)
        t1 == [t EXCEPT !.k = t.k + 1]
    IN  /\ b \in DOMAIN tasks[s] /\ ~Busy /\ t.pc = "attrs" /\ MayFail
        /\ IF impl = "index"
           THEN TaskContinues(s, b, IF t.k < Len(chunks) THEN t1
                                    ELSE [t1 EXCEPT !.pc = "loop", !.i = 1])
           ELSE TaskSettles(s, b, [t EXCEPT !.pc = "failed"])
        /\ hist' = [hist EXCEPT !.faults = hist.faults + 1, !.events = hist.events + 1]
        /\ UNCHANGED <<config, chats, calc, catalog, remote, db, now>>


(***************************************************************************)
(* processBatch: the comparison with the table.                            *)
(***************************************************************************)
\* upserts.push(row), and on to the next item
Push(t, row) ==
    [t EXCEPT !.upserts = Append(t.upserts, row), !.i = t.i + 1, !.pc = "loop",
              !.prev = NoRow, !.note = NoNote]

\* await notifyAll(message); prev was read before the await
Await(t, prev, message) ==
    [t EXCEPT !.pc = "notify", !.prev = prev, !.note = message, !.send = notifyAll]

\* index.js:380, return
Return(t) == [t EXCEPT !.pc = "done", !.i = t.i]

\* index.js:384-390
fastPath(prev, updated_at) ==
    /\ prev.present
    /\ prev.updated_at # ""
    /\ updated_at # ""
    /\ prev.updated_at = updated_at
    /\ mode = "DIMENSIONS"

\* index.js:368-379
newRow(item) ==
    LET it == PayloadOf(item)
        dims == extractDims(it)
    IN  Row(item.offer_id, ProductId(it), it.name, item.updated_at,
            sizeFingerprint(dims), dims, Null)

\* A fast path that recomputes the row from the incoming record.
fastRowRecomputes(item, prev) == newRow(item)

\* A fast path that also carries the stored name and product_id forward.
fastRowCarriesAll(item, prev) ==
    Row(item.offer_id, prev.product_id, prev.name, item.updated_at,
        prev.dim_hash, RowDims(prev), prev.attr_hash)

\* A fast path that keeps the stored fingerprint beside the incoming dimensions.
fastRowKeepsHash(item, prev) ==
    LET it == PayloadOf(item)
    IN  Row(item.offer_id, ProductId(it), it.name, item.updated_at,
            prev.dim_hash, extractDims(it), prev.attr_hash)

\* index.js:392-403
fastRow(item, prev) ==
    LET it == PayloadOf(item)
    IN  Row(item.offer_id, ProductId(it), it.name, item.updated_at,
            prev.dim_hash, RowDims(prev), prev.attr_hash)

\* index.js:411-418
attrHashOf(t, offer_id, prev) ==
    IF AttrAware THEN attrFingerprint(pickSizeAttributes(AttrsOf(t, offer_id)))
    ELSE prev.attr_hash

\* index.js:448-459
fullRow(t, item, prev) ==
    LET it == PayloadOf(item)
        dims == extractDims(it)
    IN  Row(item.offer_id, ProductId(it), it.name, item.updated_at,
            sizeFingerprint(dims), dims, attrHashOf(t, item.offer_id, prev))

\* index.js:423-427
notifiesDim(prev, dimHash) ==
    /\ mode = "DIMENSIONS" \/ mode = "BOTH"
    /\ prev.dim_hash # Null
    /\ prev.dim_hash # dimHash

\* A comparison that takes a null stored fingerprint for a difference.
notifiesAttrFromNull(prev, attrHash) == AttrAware /\ prev.attr_hash # attrHash

\* index.js:438-442
notifiesAttr(prev, attrHash) ==
    /\ AttrAware
    /\ prev.attr_hash # Null
    /\ prev.attr_hash # attrHash

\* index.js:340-460, one turn of the loop up to its first await or its end
IndexItem(t, prev) ==
    LET item == t.infoItems[t.i]
        dims == extractDims(PayloadOf(item))
    IN  IF ~prev.present
        THEN IF notifyOnNew THEN Await(t, prev, newProductMessage(item.offer_id))
             ELSE Return(Push(t, newRow(item)))
        ELSE IF fastPath(prev, item.updated_at) THEN Push(t, fastRow(item, prev))
        ELSE IF notifiesDim(prev, sizeFingerprint(dims))
        THEN Await(t, prev, dimDiffMessage(item.offer_id, RowDims(prev), dims))
        ELSE IF notifiesAttr(prev, attrHashOf(t, item.offer_id, prev))
        THEN Await(t, prev, attrDiffMessage(item.offer_id))
        ELSE Push(t, fullRow(t, item, prev))

\* index.js: the turn of the loop goes on after an await notifyAll
IndexAfterNotify(t) ==
    LET item == t.infoItems[t.i]
    IN  IF t.note.kind = "new" THEN Return(Push(t, newRow(item)))
        ELSE IF t.note.kind = "dim"
                /\ notifiesAttr(t.prev, attrHashOf(t, item.offer_id, t.prev))
        THEN Await(t, t.prev, attrDiffMessage(item.offer_id))
        ELSE Push(t, fullRow(t, item, t.prev))

\* main.js:508-522
mainInfo(t, offer_id) ==
    MapGet(t.infoItems, offer_id, [offer_id |-> offer_id, p |-> 0, updated_at |-> ""])

\* A reconciler that prefers the bulk-info record and falls back to the attributes item.
mainDimsPrefersInfo(t, offer_id) ==
    LET dims == extractDims(PayloadOf(mainInfo(t, offer_id)))
    IN  IF HasAny(dims) THEN dims ELSE extractDimsFromAttrsRoot(AttrsOf(t, offer_id))

\* main.js:511-522
mainDims(t, offer_id) ==
    LET dims == extractDimsFromAttrsRoot(AttrsOf(t, offer_id))
    IN  IF HasAny(dims) THEN dims ELSE extractDims(PayloadOf(mainInfo(t, offer_id)))

\* A comparison that does not ask whether a baseline row exists.
mainNotifiesAnyRow(prev, newHash) == prev.dim_hash # newHash

\* main.js:527
mainNotifies(prev, newHash) ==
    /\ prev.present
    /\ prev.dim_hash # Null
    /\ prev.dim_hash # newHash

\* main.js:537-547
mainRow(t, offer_id) ==
    LET info == mainInfo(t, offer_id)
        it == PayloadOf(info)
        dims == mainDims(t, offer_id)
    IN  Row(offer_id, ProductId(it), it.name, info.updated_at,
            sizeFingerprint(dims), dims, Null)

\* main.js:507-548, one turn of the loop up to its await or its end
MainItem(t, prev) ==
    LET offer_id == t.ids[t.i]
        dims == mainDims(t, offer_id)
    IN  IF mainNotifies(prev, sizeFingerprint(dims))
        THEN Await(t, prev, dimDiffMessage(offer_id, RowDims(prev), dims))
        ELSE Push(t, mainRow(t, offer_id))

MainAfterNotify(t) == Push(t, mainRow(t, t.ids[t.i]))

\* What the loop of processBatch runs over: infoItems (index.js), offerIds (main.js).
LoopLen(t) == IF impl = "index" THEN Len(t.infoItems) ELSE Len(t.ids)

LoopOffer(t) == IF impl = "index" THEN t.infoItems[t.i].offer_id ELSE t.ids[t.i]

TaskMoves(s, b, t2) == IF Settled(t2) THEN TaskSettles(s, b, t2) ELSE TaskContinues(s, b, t2)

ReconcileIndex(s, b) ==
    LET t == tasks[s][b]
    IN  /\ b \in DOMAIN tasks[s] /\ impl = "index" /\ t.pc = "loop" /\ t.i <= LoopLen(t)
        /\ TaskMoves(s, b, IndexItem(t, db[LoopOffer(t)]))
        /\ UNCHANGED <<config, chats, calc, catalog, remote, db, now, hist>>

ReconcileMain(s, b) ==
    LET t == tasks[s][b]
    IN  /\ b \in DOMAIN tasks[s] /\ impl = "main" /\ t.pc = "loop" /\ t.i <= LoopLen(t)
        /\ TaskMoves(s, b, MainItem(t, db[LoopOffer(t)]))
        /\ UNCHANGED <<config, chats, calc, catalog, remote, db, now, hist>>

\* notifyAll: sendMessage to the next recipient answers (ok) or fails.
Deliver(s, b, ok) ==
    LET t == tasks[s][b]
    IN  /\ b \in DOMAIN tasks[s] /\ ~Busy /\ t.pc = "notify" /\ t.send.j <= Len(t.send.to)
        /\ TaskContinues(s, b, [t EXCEPT !.send = sendMessage(@, ok)])
        /\ UNCHANGED <<config, chats, calc, catalog, remote, db, now, hist>>

DeliverOk(s, b) == Deliver(s, b, TRUE)

DeliverFail(s, b) == Deliver(s, b, FALSE)

\* notifyAll returns: every delivery was tried, failures swallowed.
NotifyDone(s, b) ==
    LET t == tasks[s][b]
        o == t.note.offer_id
    IN  /\ b \in DOMAIN tasks[s] /\ ~Busy /\ t.pc = "notify" /\ t.send.j > Len(t.send.to)
        /\ TaskMoves(s, b, IF impl = "index" THEN IndexAfterNotify(t) ELSE MainAfterNotify(t))
        /\ hist' = IF t.note.kind = "dim"
                   THEN [hist EXCEPT !.dimNotes[o] = Min(hist.dimNotes[o] + 1, 2)]
                   ELSE hist
        /\ UNCHANGED <<config, chats, calc, catalog, remote, db, now>>

\* notifyAll throws before any delivery (getChats fails): processBatch throws.
NotifyThrow(s, b) ==
    LET t == tasks[s][b]
    IN  /\ b \in DOMAIN tasks[s] /\ ~Busy /\ t.pc = "notify" /\ t.send.log = <<>> /\ MayFail
        /\ TaskSettles(s, b, [t EXCEPT !.pc = "failed"])
        /\ hist' = [hist EXCEPT !.faults = hist.faults + 1, !.events = hist.events + 1]
        /\ UNCHANGED <<config, chats, calc, catalog, remote, db, now>>

\* if (upserts.length) txUpsertMany(upserts): nothing was staged
NoCommit(s, b) ==
    LET t == tasks[s][b]
    IN  /\ b \in DOMAIN tasks[s] /\ t.pc = "loop" /\ t.i > LoopLen(t) /\ t.upserts = <<>>
        /\ TaskSettles(s, b, [t EXCEPT !.pc = "done"])
        /\ UNCHANGED <<config, chats, calc, catalog, remote, db, now, hist>>

\* txUpsertMany commits the staged rows in one transaction
CommitOk(s, b) ==
    LET t == tasks[s][b]
    IN  /\ b \in DOMAIN tasks[s] /\ t.pc = "loop" /\ t.i > LoopLen(t) /\ t.upserts # <<>>
        /\ db' = txUpsertMany(db, t.upserts)
        /\ TaskSettles(s, b, [t EXCEPT !.pc = "done"])
        /\ UNCHANGED <<config, chats, calc, catalog, remote, now, hist>>

\* txUpsertMany throws: the transaction rolls back and processBatch throws
CommitFail(s, b) ==
    LET t == tasks[s][b]
    IN  /\ b \in DOMAIN tasks[s] /\ t.pc = "loop" /\ t.i > LoopLen(t) /\ t.upserts # <<>> /\ MayFail
        /\ TaskSettles(s, b, [t EXCEPT !.pc = "failed"])
        /\ hist' = [hist EXCEPT !.faults = hist.faults + 1, !.events = hist.events + 1]
        /\ UNCHANGED <<config, chats, calc, catalog, remote, db, now>>

(***************************************************************************)
(* The environment: the seller's catalog, and the process being restarted. *)
(***************************************************************************)
\* No scan is running and no batch of an earlier scan lingers.
Quiet ==
    /\ ~Busy
    /\ \A s \in ScanIds : /\ ~ScanActive(s)
                          /\ \A b \in DOMAIN tasks[s] : Settled(tasks[s][b])

InCatalog(o) == \E n \in 1..Len(catalog) : catalog[n] = o

\* The seller edits an offer.  The program reads the remote state only in its
\* fetches, once per offer and scan, so edits between scans lose no behaviour.
RemoteChange(o) ==
    /\ Quiet /\ InCatalog(o)
    /\ hist.changes < MaxChanges /\ hist.events < MaxEvents
    /\ \E p \in 1..NInfo, t \in Times, a \in 0..NAttr :
        /\ <<p, t, a>> # <<remote[o].p, remote[o].t, remote[o].a>>
        /\ p = remote[o].p \/ a = remote[o].a
        /\ (~AttrAware => a = remote[o].a)
        /\ remote' = [remote EXCEPT ![o] = [p |-> p, t |-> t, a |-> a]]
    /\ hist' = [hist EXCEPT !.changes = hist.changes + 1, !.events = hist.events + 1,
                            !.dimNotes[o] = 0]
    /\ UNCHANGED <<config, chats, calc, catalog, db, driver, isScanning, now, scans, tasks>>

\* The seller lists one more offer.
ListOffer ==
    /\ Quiet
    /\ Len(catalog) <= MaxListings /\ Len(catalog) < Len(CatalogOrder)
    /\ hist.events < MaxEvents
    /\ catalog' = Append(catalog, CatalogOrder[Len(catalog) + 1])
    /\ hist' = [hist EXCEPT !.events = hist.events + 1]
    /\ UNCHANGED <<config, chats, calc, remote, db, driver, isScanning, now, scans, tasks>>

\* chat_id INTEGER PRIMARY KEY: the table keeps its rows in ascending order.
InsertChat(c, rows) ==
    SelectSeq(rows, LAMBDA x : x < c) \o <<c>> \o SelectSeq(rows, LAMBDA x : x > c)

\* bot.start: stmtInsertChat.run(ctx.chat.id), INSERT OR IGNORE.  The handler runs
\* between the turns of a scan, also while a notifyAll is under way.
Subscribe(c) ==
    /\ ~Busy
    /\ \A n \in DOMAIN chats : chats[n] # c
    /\ chats' = InsertChat(c, chats)
    /\ UNCHANGED <<config, calc, catalog, remote, db, driver, isScanning, now, scans, tasks, hist>>

\* main.js: SIGINT or SIGTERM arrives and finds a listener.  The listeners at the
\* end of the module (bot.stop) exist from the start; those that also clear the
\* interval timer are registered by run() after the first tick and setInterval.
\* Each is a process.once listener: a signal received during the first tick
\* uses up the former only ("early").  A signal that finds no listener ends the
\* process, after which nothing runs.
Signal(sig) ==
    /\ impl = "main" /\ ~Busy
    /\ driver \in {"startup", "timer", "stopped"}
    /\ \/ hist.signals[sig] = "no"
       \/ hist.signals[sig] = "early" /\ driver # "startup"
    /\ driver' = IF driver = "startup" THEN driver ELSE "stopped"
    /\ hist' = [hist EXCEPT !.signals[sig] = IF driver = "startup" THEN "early" ELSE "late"]
    /\ UNCHANGED <<config, chats, calc, catalog, remote, db, isScanning, now, scans, tasks>>

\* The process ends and one of the two programs is started on the same database
\* file (created with index.js's schema), with its own environment.
Restart ==
    /\ Quiet
    /\ hist.restarts < MaxRestarts /\ hist.events < MaxEvents
    /\ impl = "main"
    /\ \E i \in {"index"}, m \in Modes, n \in BOOLEAN :
        /\ impl' = i /\ mode' = m /\ notifyOnNew' = n
    /\ driver' = "init"
    /\ isScanning' = FALSE
    /\ scans' = [s \in ScanIds |-> NoScan]
    /\ tasks' = [s \in ScanIds |-> <<>>]
    /\ hist' = [hist EXCEPT !.restarts = hist.restarts + 1, !.events = hist.events + 1,
                            !.faults = 0,
                            !.dimNotes = [o \in Offers |-> 0]]
    /\ UNCHANGED <<TRACK_OFFER_IDS, chats, calc, catalog, remote, db, now>>

(***************************************************************************)
(* The specification.                                                      *)
(***************************************************************************)
Init ==
    /\ impl \in Impls
    /\ mode \in Modes
    /\ notifyOnNew \in BOOLEAN
    /\ impl = "main" => ~notifyOnNew
    /\ TRACK_OFFER_IDS = <<>>
    /\ chats = <<>>
    /\ calc = NoCalc
    /\ catalog = <<"o1">>
    /\ remote = [o \in Offers |-> [p |-> 1, t |-> "t1", a |-> 1]]
    /\ db = [o \in Offers |-> NoRow]
    /\ driver = "init"
    /\ isScanning = FALSE
    /\ now = 0
    /\ scans = [s \in ScanIds |-> NoScan]
    /\ tasks = [s \in ScanIds |-> <<>>]
    /\ hist = [changes |-> 0, restarts |-> 0, faults |-> 0, events |-> 0,
               dimNotes |-> [o \in Offers |-> 0], signals |-> NoSignals]

Next ==
    \/ Startup
    \/ TickStart
    \/ TickSkip
    \/ LoopWake
    \/ \E s \in ScanIds : PageOk(s) \/ PageFail(s) \/ ReportDone(s) \/ ReportThrow(s)
    \/ \E s \in ScanIds, b \in BatchIds :
          \/ InfoOk(s, b) \/ InfoFail(s, b) \/ FallbackOk(s, b) \/ FallbackFail(s, b)
          \/ AttrsOk(s, b) \/ AttrsFail(s, b)
          \/ ReconcileIndex(s, b) \/ ReconcileMain(s, b)
          \/ NotifyDone(s, b) \/ NotifyThrow(s, b)
          \/ NoCommit(s, b) \/ CommitOk(s, b) \/ CommitFail(s, b)
    \/ \E o \in Offers : RemoteChange(o)
    \/ ListOffer
    \/ Restart

Spec == Init /\ [][Next]_vars


\* The table a previous run of main.js left behind: one row for o1, recorded when
\* the product still had payload 2 and updated_at "t2" (main.js:537-550).
EarlierDb ==
    [o \in Offers |->
        IF o = "o1" THEN newRow([offer_id |-> "o1", p |-> 2, updated_at |-> "t2"])
        ELSE NoRow]


(***************************************************************************)
(* The scheduler on a fixed catalog of three offers: two pages, two        *)
(* batches, every failure, no edits and no restart.                        *)
(***************************************************************************)
InitSched ==
    /\ impl \in Impls
    /\ mode \in Modes
    /\ notifyOnNew = FALSE
    /\ TRACK_OFFER_IDS = <<>>
    /\ chats = <<>>
    /\ calc = NoCalc
    /\ catalog = CatalogOrder
    /\ remote = [o \in Offers |-> [p |-> 1, t |-> "t1", a |-> 1]]
    /\ db \in {[o \in Offers |-> NoRow], EarlierDb}
    /\ driver = "init"
    /\ isScanning = FALSE
    /\ now = 0
    /\ scans = [s \in ScanIds |-> NoScan]
    /\ tasks = [s \in ScanIds |-> <<>>]
    /\ hist = [changes |-> 0, restarts |-> 0, faults |-> 0, events |-> 0,
               dimNotes |-> [o \in Offers |-> 0], signals |-> NoSignals]

NextSched ==
    \/ Startup
    \/ TickStart
    \/ TickSkip
    \/ LoopWake
    \/ \E s \in ScanIds : PageOk(s) \/ PageFail(s) \/ ReportDone(s) \/ ReportThrow(s)
    \/ \E s \in ScanIds, b \in BatchIds :
          \/ InfoOk(s, b) \/ InfoFail(s, b) \/ FallbackOk(s, b) \/ FallbackFail(s, b)
          \/ AttrsOk(s, b) \/ AttrsFail(s, b)
          \/ ReconcileIndex(s, b) \/ ReconcileMain(s, b)
          \/ NotifyDone(s, b) \/ NotifyThrow(s, b)
          \/ NoCommit(s, b) \/ CommitOk(s, b) \/ CommitFail(s, b)

SpecSched == InitSched /\ [][NextSched]_vars

(***************************************************************************)
(* Delivery: subscribers 1 and 3, a catalog of one or two offers in one    *)
(* batch, a baseline row that differs from the remote product, every       *)
(* failure, and chats that subscribe while a scan runs.                    *)
(***************************************************************************)
ChatIds == 1..MaxChats

InitNotify ==
    /\ impl \in Impls
    /\ mode \in Modes
    /\ notifyOnNew \in BOOLEAN
    /\ impl = "main" => ~notifyOnNew
    /\ TRACK_OFFER_IDS = <<>>
    /\ chats = <<1, 3>>
    /\ calc = NoCalc
    /\ catalog \in {<<"o1">>, <<"o1", "o2">>}
    /\ remote = [o \in Offers |-> [p |-> 1, t |-> "t1", a |-> 1]]
    /\ db = EarlierDb
    /\ driver = "init"
    /\ isScanning = FALSE
    /\ now = 0
    /\ scans = [s \in ScanIds |-> NoScan]
    /\ tasks = [s \in ScanIds |-> <<>>]
    /\ hist = [changes |-> 0, restarts |-> 0, faults |-> 0, events |-> 0,
               dimNotes |-> [o \in Offers |-> 0], signals |-> NoSignals]

NextNotify ==
    \/ Startup
    \/ TickStart
    \/ TickSkip
    \/ LoopWake
    \/ \E s \in ScanIds :
          \/ PageOk(s) \/ PageFail(s)
          \/ ReportDeliverOk(s) \/ ReportDeliverFail(s) \/ ReportDone(s) \/ ReportThrow(s)
    \/ \E s \in ScanIds, b \in BatchIds :
          \/ InfoOk(s, b) \/ InfoFail(s, b) \/ FallbackOk(s, b) \/ FallbackFail(s, b)
          \/ AttrsOk(s, b) \/ AttrsFail(s, b)
          \/ ReconcileIndex(s, b) \/ ReconcileMain(s, b)
          \/ DeliverOk(s, b) \/ DeliverFail(s, b)
          \/ NotifyDone(s, b) \/ NotifyThrow(s, b)
          \/ NoCommit(s, b) \/ CommitOk(s, b) \/ CommitFail(s, b)
    \/ \E c \in ChatIds : Subscribe(c)

SpecNotify == InitNotify /\ [][NextNotify]_vars

(***************************************************************************)
(* One scan against a server that answers the page requests as it likes,   *)
(* with and without an allow-list: up to MaxPaged offers in up to three     *)
(* batches.  The clock stands at MaxTicks, so no second scan starts.        *)
(***************************************************************************)
\* The batches of a scan of MaxPaged offers.
PagedBatchIds == 1..((MaxPaged + BatchSize - 1) \div BatchSize)

InitPage ==
    /\ impl \in Impls
    /\ mode \in Modes
    /\ notifyOnNew = FALSE
    /\ TRACK_OFFER_IDS \in {<<>>, <<"o1", "o2">>}
    /\ chats = <<>>
    /\ calc = NoCalc
    /\ catalog = CatalogOrder
    /\ remote = [o \in Offers |-> [p |-> 1, t |-> "t1", a |-> 1]]
    /\ db = EarlierDb
    /\ driver = "init"
    /\ isScanning = FALSE
    /\ now = MaxTicks
    /\ scans = [s \in ScanIds |-> NoScan]
    /\ tasks = [s \in ScanIds |-> <<>>]
    /\ hist = [changes |-> 0, restarts |-> 0, faults |-> 0, events |-> 0,
               dimNotes |-> [o \in Offers |-> 0], signals |-> NoSignals]

NextPage ==
    \/ Startup
    \/ \E s \in ScanIds :
          PageAny(s) \/ PageRead(s) \/ PageFail(s) \/ ReportDone(s) \/ ReportThrow(s)
    \/ \E s \in ScanIds, b \in PagedBatchIds :
          \/ InfoOk(s, b) \/ InfoFail(s, b) \/ FallbackOk(s, b) \/ FallbackFail(s, b)
          \/ AttrsOk(s, b) \/ AttrsFail(s, b)
          \/ ReconcileIndex(s, b) \/ ReconcileMain(s, b)
          \/ NotifyDone(s, b) \/ NotifyThrow(s, b)
          \/ NoCommit(s, b) \/ CommitOk(s, b) \/ CommitFail(s, b)

SpecPage == InitPage /\ [][NextPage]_vars

\* The program keeps taking its steps: every request is answered in the end.
SpecPageFair == SpecPage /\ WF_vars(NextPage)

(***************************************************************************)
(* main.js on a catalog of one offer, with termination signals arriving at *)
(* any moment between the turns of the program.  main.js stages a row for  *)
(* every offer of a batch, so its batches always have rows to commit.      *)
(***************************************************************************)
InitSignal ==
    /\ impl = "main"
    /\ mode \in Modes
    /\ notifyOnNew = FALSE
    /\ TRACK_OFFER_IDS = <<>>
    /\ chats = <<>>
    /\ calc = NoCalc
    /\ catalog = <<"o1">>
    /\ remote = [o \in Offers |-> [p |-> 1, t |-> "t1", a |-> 1]]
    /\ db \in {[o \in Offers |-> NoRow], EarlierDb}
    /\ driver = "init"
    /\ isScanning = FALSE
    /\ now = 0
    /\ scans = [s \in ScanIds |-> NoScan]
    /\ tasks = [s \in ScanIds |-> <<>>]
    /\ hist = [changes |-> 0, restarts |-> 0, faults |-> 0, events |-> 0,
               dimNotes |-> [o \in Offers |-> 0], signals |-> NoSignals]

NextSignal ==
    \/ Startup
    \/ TickStart
    \/ TickSkip
    \/ \E s \in ScanIds : PageOk(s) \/ PageFail(s) \/ ReportDone(s) \/ ReportThrow(s)
    \/ \E s \in ScanIds, b \in BatchIds :
          \/ InfoOk(s, b) \/ InfoFail(s, b) \/ FallbackOk(s, b) \/ FallbackFail(s, b)
          \/ AttrsOk(s, b) \/ AttrsFail(s, b)
          \/ ReconcileMain(s, b)
          \/ NotifyDone(s, b) \/ NotifyThrow(s, b)
          \/ CommitOk(s, b) \/ CommitFail(s, b)
    \/ \E sig \in Signals : Signal(sig)

SpecSignal == InitSignal /\ [][NextSignal]_vars

(***************************************************************************)
(* Scan after scan against a server whose answers never change and never   *)
(* fail, from a table that is empty or was left by an earlier run.  Every  *)
(* batch receives its records, so none ends with nothing to examine.       *)
(***************************************************************************)
\* The table a previous run of index.js left behind: o1 as the server describes
\* it now, with the fingerprint of the size attributes of payload 3
\* (index.js:448-459).
AttrBaselineDb ==
    [o \in Offers |->
        IF o = "o1"
        THEN [newRow([offer_id |-> "o1", p |-> 1, updated_at |-> "t1"])
                 EXCEPT !.attr_hash = attrFingerprint(pickSizeAttributes(AttrPayloads[3]))]
        ELSE NoRow]

InitTwice ==
    /\ impl \in Impls
    /\ mode \in Modes
    /\ notifyOnNew \in BOOLEAN
    /\ impl = "main" => ~notifyOnNew
    /\ TRACK_OFFER_IDS = <<>>
    /\ chats = <<>>
    /\ calc = NoCalc
    /\ catalog \in {<<"o1">>, <<"o1", "o2">>}
    /\ \E a \in {0, 1, 3} : remote = [o \in Offers |-> [p |-> 1, t |-> "t1", a |-> a]]
    /\ db \in {[o \in Offers |-> NoRow], EarlierDb, AttrBaselineDb}
    /\ driver = "init"
    /\ isScanning = FALSE
    /\ now = 0
    /\ scans = [s \in ScanIds |-> NoScan]
    /\ tasks = [s \in ScanIds |-> <<>>]
    /\ hist = [changes |-> 0, restarts |-> 0, faults |-> 0, events |-> 0,
               dimNotes |-> [o \in Offers |-> 0], signals |-> NoSignals]

NextTwice ==
    \/ Startup
    \/ TickStart
    \/ TickSkip
    \/ LoopWake
    \/ \E s \in ScanIds : PageOk(s)
    \/ \E s \in ScanIds, b \in BatchIds :
          \/ InfoOk(s, b)
          \/ AttrsOk(s, b)
          \/ ReconcileIndex(s, b) \/ ReconcileMain(s, b)
          \/ NotifyDone(s, b)
          \/ CommitOk(s, b)

SpecTwice == InitTwice /\ [][NextTwice]_vars

(***************************************************************************)
(* The helper functions applied on their own to inputs of every shape,     *)
(* while the rest of the program stands still.                             *)
(***************************************************************************)
\* Source values: absent, numbers, and strings that are empty, blank, numeric
\* or not numeric.
RawValues == {Null, Some(0), Some(12), Str(""), Str(" "), Str("0"), Str("12"), Str("abc")}

Units == {"", "mm", "CM", "m", "g", "kg", "pt"}

\* Direct fields of an info record: none, all, the weight only, a zero depth only.
DirectInputs ==
    {NoDirect,
     [depth |-> Some(100), width |-> Some(50), height |-> Some(20),
      dimension_unit |-> "", weight |-> Some(300), weight_unit |-> "g"],
     [NoDirect EXCEPT !.weight = Some(300)],
     [NoDirect EXCEPT !.depth = Some(0)]}

\* The nested dimensions object of an info record: none, one under "length"
\* with a weight in kilograms, one that disagrees with the direct fields.
NestedInputs ==
    {Null,
     Some(Obj(Null, Some(100), Some(50), Some(20), Some(1), "mm", "kg")),
     Some(Obj(Some(7), Null, Some(8), Some(9), Some(10), "cm", "g"))}

ExtractInputs == {InfoItem(11, "A", d, n) : d \in DirectInputs, n \in NestedInputs}

\* Dimension records, some of them lacking fields.
SizeInputs ==
    {Dims(d, w, Null, wg) : d \in {Null, Some(0), Some(100)}, w \in {Null, Some(50)},
                            wg \in {Null, Some(300)}}
    \cup {[depth_mm |-> Some(100)],
          [depth_mm |-> Some(0), weight_g |-> Null],
          [width_mm |-> Some(50), height_mm |-> Null],
          [weight_g |-> Some(300), depth_mm |-> Null, width_mm |-> Null]}

\* Lists of picked size attributes: none, one or two attributes in either order,
\* their values in every order.
ValueLists == {<<>>, <<"M">>, <<"L", "M">>, <<"M", "L">>}

AttrInputs ==
    {<<>>}
    \cup {<<Attr("Razmer", 1, vs)>> : vs \in ValueLists}
    \cup {<<Attr("Razmer", 1, vs), Attr("Size EU", 3, ws)>> : vs \in ValueLists, ws \in ValueLists}
    \cup {<<Attr("Size EU", 3, ws), Attr("Razmer", 1, vs)>> : vs \in ValueLists, ws \in ValueLists}

Applied(out) == [calc EXCEPT !.out = out, !.done = TRUE]

\* Everything but calc.
program == <<impl, mode, notifyOnNew, TRACK_OFFER_IDS, chats, catalog, remote, db, driver,
             isScanning, now, scans, tasks, hist>>

InitPure ==
    /\ impl = "index"
    /\ mode = "BOTH"
    /\ notifyOnNew = FALSE
    /\ TRACK_OFFER_IDS = <<>>
    /\ chats = <<>>
    /\ \/ calc \in {[fn |-> "extractDims", it |-> it, out |-> NullDims, done |-> FALSE] :
                        it \in ExtractInputs}
       \/ calc \in {[fn |-> f, val |-> v, unit |-> u, out |-> Null, done |-> FALSE] :
                        f \in {"mm", "grams"}, v \in RawValues, u \in Units}
       \/ calc \in {[fn |-> "sizeFingerprint", a |-> a, b |-> b, out |-> Null, done |-> FALSE] :
                        a \in SizeInputs, b \in SizeInputs}
       \/ calc \in {[fn |-> "attrFingerprint", a |-> a, b |-> b, out |-> Null, done |-> FALSE] :
                        a \in AttrInputs, b \in AttrInputs}
    /\ catalog = <<"o1">>
    /\ remote = [o \in Offers |-> [p |-> 1, t |-> "t1", a |-> 1]]
    /\ db = [o \in Offers |-> NoRow]
    /\ driver = "init"
    /\ isScanning = FALSE
    /\ now = 0
    /\ scans = [s \in ScanIds |-> NoScan]
    /\ tasks = [s \in ScanIds |-> <<>>]
    /\ hist = [changes |-> 0, restarts |-> 0, faults |-> 0, events |-> 0,
               dimNotes |-> [o \in Offers |-> 0], signals |-> NoSignals]

ApplyExtractDims ==
    /\ calc.fn = "extractDims" /\ ~calc.done
    /\ calc' = Applied(extractDims(calc.it))
    /\ UNCHANGED program

ApplyMm ==
    /\ calc.fn = "mm" /\ ~calc.done
    /\ calc' = Applied(mm(calc.val, calc.unit))
    /\ UNCHANGED program

ApplyGrams ==
    /\ calc.fn = "grams" /\ ~calc.done
    /\ calc' = Applied(grams(calc.val, calc.unit))
    /\ UNCHANGED program

ApplySizeFingerprint ==
    /\ calc.fn = "sizeFingerprint" /\ ~calc.done
    /\ calc' = Applied(<<sizeFingerprint(calc.a), sizeFingerprint(calc.b)>>)
    /\ UNCHANGED program

ApplyAttrFingerprint ==
    /\ calc.fn = "attrFingerprint" /\ ~calc.done
    /\ calc' = Applied(<<attrFingerprint(calc.a), attrFingerprint(calc.b)>>)
    /\ UNCHANGED program

NextPure ==
    \/ ApplyExtractDims
    \/ ApplyMm
    \/ ApplyGrams
    \/ ApplySizeFingerprint
    \/ ApplyAttrFingerprint

SpecPure == InitPure /\ [][NextPure]_vars

(***************************************************************************)
(* Properties of the scheduler, checked under SpecSched.                   *)
(***************************************************************************)
\* The scans whose scanOnce has not returned or thrown yet.
Executing == {s \in ScanIds : scans[s].pc \in {"paging", "batches"}}

\* A tick of the interval timer: the only steps of main.js that advance now.
IsTick == impl = "main" /\ now' # now

\* C1: in main.js a tick that arrives while isScanning is true changes nothing:
\* no scan starts, no batch moves, no row is read or written, no notification
\* is sent; and at no time are two scanOnce calls executing.
C1_OverlapGuard ==
    /\ [](impl = "main" => Cardinality(Executing) <= 1)
    /\ [][IsTick /\ isScanning => UNCHANGED <<scans, tasks, db, hist, isScanning, driver>>]_vars

\* A tick was dropped while the second batch of a scan was still being fetched.
C1_Witness ==
    /\ impl = "main" /\ isScanning
    /\ \E s \in ScanIds : /\ scans[s].pc = "batches"
                          /\ scans[s].seq < now
                          /\ \E b \in DOMAIN tasks[s] : tasks[s][b].pc = "info"

\* A batch whose processBatch has not returned or thrown yet.
InFlight(t) == ~Settled(t)

SameOffer(t1, t2) == \E m \in DOMAIN t1.ids : \E n \in DOMAIN t2.ids : t1.ids[m] = t2.ids[n]

\* The scheduler is Idle: the flag is down (main.js), the loop sleeps or ended (index.js).
OutOfScanning ==
    \/ impl = "main" /\ ~isScanning
    \/ impl = "index" /\ driver \in {"sleep", "dead"}

\* C2: whenever the scheduler is out of Scanning (isScanning false in main.js,
\* the loop asleep or ended in index.js) every processBatch of every scan has
\* settled, and two batches of different scans holding the same offer are never
\* in flight together.
C2_NoBatchOutlivesScan ==
    /\ OutOfScanning =>
          \A s \in ScanIds : \A b \in DOMAIN tasks[s] : ~InFlight(tasks[s][b])
    /\ \A s1 \in ScanIds : \A s2 \in ScanIds \ {s1} :
          \A b1 \in DOMAIN tasks[s1] : \A b2 \in DOMAIN tasks[s2] :
             ~(InFlight(tasks[s1][b1]) /\ InFlight(tasks[s2][b2])
               /\ SameOffer(tasks[s1][b1], tasks[s2][b2]))

\* C3: in main.js isScanning is true only while a scan or the report of its
\* error is under way, nothing escapes tick, and a tick that finds the flag
\* false starts a new scan.
C3_FlagAlwaysReset ==
    /\ [](impl = "main" => /\ isScanning => \E s \in ScanIds : ScanActive(s)
                           /\ driver # "dead")
    /\ [][IsTick /\ ~isScanning =>
            /\ isScanning'
            /\ \E s \in ScanIds : scans'[s].pc = "paging" /\ scans'[s].seq = now']_vars

\* A scan threw, reporting the error failed as well, and a later tick has
\* started the next scan.
C3_Witness ==
    /\ impl = "main" /\ isScanning
    /\ \E s1 \in ScanIds : \E s2 \in ScanIds :
          /\ scans[s1].pc = "unreported"
          /\ scans[s2].pc = "paging" /\ scans[s2].seq > scans[s1].seq

(***************************************************************************)
(* Properties of processBatch, checked under Spec.                         *)
(***************************************************************************)
\* C4: while nothing fails and the process is not restarted, a dimension
\* change that stays is announced once: no offer gets a second dimension-change
\* notification for the same remote values, whatever shares its batch.
C4_EffectivelyOnce ==
    hist.faults = 0 => \A o \in Offers : hist.dimNotes[o] <= 1

\* C5: in index.js, once processBatch has finished without throwing, every
\* offer whose detail record it fetched has a committed row.
C5_BatchCommitsAll ==
    impl = "index" =>
       \A s \in ScanIds : \A b \in DOMAIN tasks[s] :
          tasks[s][b].pc = "done" =>
             \A n \in DOMAIN tasks[s][b].infoItems :
                db[tasks[s][b].infoItems[n].offer_id].present

\* The batch (s, b) is at the top of its loop with an item left, and takes a turn.
Turn(s, b) ==
    /\ b \in DOMAIN tasks[s]
    /\ tasks[s][b].pc = "loop" /\ tasks[s][b].i <= LoopLen(tasks[s][b])
    /\ tasks'[s] # tasks[s]

\* The batch (s, b) goes on after the notifyAll call of the given kind returned.
Resumes(s, b, kind) ==
    /\ b \in DOMAIN tasks[s]
    /\ tasks[s][b].pc = "notify" /\ tasks[s][b].note.kind = kind
    /\ b \in DOMAIN tasks'[s] /\ tasks'[s][b] # tasks[s][b]
    /\ tasks'[s][b].pc # "failed"

\* The step stages exactly one row, for the offer under the loop.
StagesOne(s, b) ==
    /\ Len(tasks'[s][b].upserts) = Len(tasks[s][b].upserts) + 1
    /\ SubSeq(tasks'[s][b].upserts, 1, Len(tasks[s][b].upserts)) = tasks[s][b].upserts
    /\ tasks'[s][b].upserts[Len(tasks'[s][b].upserts)].offer_id = LoopOffer(tasks[s][b])

Staged(s, b) == tasks'[s][b].upserts[Len(tasks'[s][b].upserts)]

\* The dimensions the turn extracts from what the batch fetched.
NewDims(t) ==
    IF impl = "index" THEN extractDims(PayloadOf(t.infoItems[t.i]))
    ELSE mainDims(t, t.ids[t.i])

BaselineStaged(s, b) ==
    /\ StagesOne(s, b)
    /\ Staged(s, b).dim_hash = sizeFingerprint(NewDims(tasks[s][b]))
    /\ RowDims(Staged(s, b)) = NewDims(tasks[s][b])
    /\ impl = "index" => Staged(s, b).attr_hash = Null
    /\ tasks'[s][b].note = NoNote

\* C6: the turn of an offer without a baseline row sends no dimension-change and
\* no attribute-change notification and stages one row with the fingerprint of
\* the extracted dimensions and, in index.js, a null attribute fingerprint;
\* the only message it may send first is the new-product alert.
C6_NoBaseline ==
    [][\A s \in ScanIds : \A b \in BatchIds :
          /\ (Turn(s, b) /\ ~db[LoopOffer(tasks[s][b])].present) =>
                IF impl = "index" /\ notifyOnNew
                THEN /\ tasks'[s][b].pc = "notify" /\ tasks'[s][b].note.kind = "new"
                     /\ tasks'[s][b].upserts = tasks[s][b].upserts
                ELSE BaselineStaged(s, b)
          /\ Resumes(s, b, "new") => BaselineStaged(s, b)]_vars

\* main.js has staged the first row of an offer it never saw.
C6_Witness ==
    /\ impl = "main"
    /\ \E s \in ScanIds : \E b \in DOMAIN tasks[s] :
          /\ tasks[s][b].pc = "loop" /\ tasks[s][b].upserts # <<>>
          /\ ~db[tasks[s][b].upserts[1].offer_id].present
          /\ tasks[s][b].upserts[1].dim_hash # Null

DimTracking == mode = "DIMENSIONS" \/ mode = "BOTH"

DimFields == {"depth_mm", "width_mm", "height_mm", "weight_g"}

\* The case the fast path of index.js is for: DIMENSIONS mode and an incoming
\* updated_at that is non-empty and equals the stored one.
FastCase(t) ==
    /\ impl = "index" /\ mode = "DIMENSIONS"
    /\ db[LoopOffer(t)].present
    /\ t.infoItems[t.i].updated_at # ""
    /\ t.infoItems[t.i].updated_at = db[LoopOffer(t)].updated_at

\* lines has one line for each field whose old and new values differ, carrying
\* those values, and no other line.
ListsExactly(lines, old, new) ==
    /\ \A n \in DOMAIN lines : lines[n].field \in DimFields
    /\ \A f \in DimFields :
          LET hits == {n \in DOMAIN lines : lines[n].field = f}
          IN  IF old[f] # new[f]
              THEN /\ Cardinality(hits) = 1
                   /\ \A n \in hits : lines[n].old = old[f] /\ lines[n].new = new[f]
              ELSE hits = {}

SendsDim(s, b) == tasks'[s][b].pc = "notify" /\ tasks'[s][b].note.kind = "dim"

\* The batch (s, b) reaches the commit and the table changes.
Commits(s, b) ==
    /\ b \in DOMAIN tasks[s]
    /\ tasks[s][b].pc = "loop" /\ tasks[s][b].i > LoopLen(tasks[s][b])
    /\ db' # db

\* C7: for an offer with a baseline row, off the fast path and in a mode that
\* tracks dimensions, the turn sends a dimension-change notification exactly
\* when the stored dimension fingerprint is non-null and differs from the new
\* one; the message lists exactly the fields that differ with their old and new
\* values; no second such message follows in the same turn; the staged row
\* carries the new dimensions and the commit stores them.
C7_DimensionChange ==
    [][\A s \in ScanIds : \A b \in BatchIds :
          /\ (Turn(s, b) /\ DimTracking /\ db[LoopOffer(tasks[s][b])].present
                /\ ~FastCase(tasks[s][b])) =>
                LET t == tasks[s][b]
                    prev == db[LoopOffer(t)]
                    h == sizeFingerprint(NewDims(t))
                IN  /\ SendsDim(s, b) <=> (prev.dim_hash # Null /\ prev.dim_hash # h)
                    /\ SendsDim(s, b) =>
                          /\ tasks'[s][b].note.offer_id = LoopOffer(t)
                          /\ ListsExactly(tasks'[s][b].note.lines, RowDims(prev), NewDims(t))
                          /\ tasks'[s][b].note.lines # <<>>
                    /\ tasks'[s][b].pc # "notify" =>
                          StagesOne(s, b) /\ RowDims(Staged(s, b)) = NewDims(t)
          /\ Resumes(s, b, "dim") =>
                /\ ~SendsDim(s, b)
                /\ tasks'[s][b].pc # "notify" =>
                      StagesOne(s, b) /\ RowDims(Staged(s, b)) = NewDims(tasks[s][b])
          /\ Commits(s, b) =>
                \A n \in DOMAIN tasks[s][b].upserts :
                   RowDims(db'[tasks[s][b].upserts[n].offer_id]) = RowDims(tasks[s][b].upserts[n])]_vars

\* The depth of o1 went from 100 to 120 mm: one notification was delivered and
\* the committed row holds the new depth.
C7_Witness ==
    /\ DimTracking
    /\ hist.dimNotes["o1"] = 1
    /\ db["o1"].depth_mm = Some(120) /\ db["o1"].width_mm = Some(50)

\* The attribute fingerprint the turn computes (index.js:411-418).
NewAttrHash(t) == attrFingerprint(pickSizeAttributes(AttrsOf(t, LoopOffer(t))))

C9_FastPathKeepsDims ==
    [][\A s \in ScanIds : \A b \in BatchIds :
          (Turn(s, b) /\ FastCase(tasks[s][b])) =>
             /\ tasks'[s][b].pc # "notify" /\ tasks'[s][b].note = NoNote
             /\ StagesOne(s, b)
             /\ RowDims(Staged(s, b)) = RowDims(db[LoopOffer(tasks[s][b])])
             /\ Staged(s, b).dim_hash = db[LoopOffer(tasks[s][b])].dim_hash]_vars

\* The fast path staged the stored dimensions although the incoming record of
\* the offer carries other ones.
C9_Witness ==
    /\ impl = "index" /\ mode = "DIMENSIONS"
    /\ \E s \in ScanIds : \E b \in DOMAIN tasks[s] :
          /\ tasks[s][b].pc = "loop" /\ tasks[s][b].upserts # <<>>
          /\ tasks[s][b].infoItems[1].updated_at = db[tasks[s][b].upserts[1].offer_id].updated_at
          /\ tasks[s][b].upserts[1].dim_hash = db[tasks[s][b].upserts[1].offer_id].dim_hash
          /\ tasks[s][b].upserts[1].dim_hash
                # sizeFingerprint(extractDims(PayloadOf(tasks[s][b].infoItems[1])))

\* The fields of a row but last_seen_at and the dimensions' group.
Carried(r) == <<r.updated_at, r.dim_hash, RowDims(r), r.attr_hash>>

Fetched(t) == {t.infoItems[m].offer_id : m \in DOMAIN t.infoItems}

\* C11: a batch stages rows only for offers whose detail record it fetched.
C11_OnlyFetchedStaged ==
    \A s \in ScanIds : \A b \in DOMAIN tasks[s] :
       \A n \in DOMAIN tasks[s][b].upserts :
          tasks[s][b].upserts[n].offer_id \in Fetched(tasks[s][b])

\* C12: a batch sends a change notification only for offers whose detail
\* record it fetched.
C12_NoNoteForUnfetched ==
    \A s \in ScanIds : \A b \in DOMAIN tasks[s] :
       (tasks[s][b].pc = "notify" /\ tasks[s][b].note.kind \in {"dim", "attr"}) =>
          tasks[s][b].note.offer_id \in Fetched(tasks[s][b])

\* The batch (s, b) is waiting for the answer named by pc and gets it.
Answered(s, b, pc) ==
    /\ b \in DOMAIN tasks[s]
    /\ tasks[s][b].pc = pc
    /\ b \in DOMAIN tasks'[s] /\ tasks'[s][b] # tasks[s][b]

\* C13: after the primary call failed the batch is fetched in sub-chunks of at
\* most SubChunk ids (100 in the code); whether a sub-chunk's call fails or not
\* the next sub-chunk is fetched, the batch never throws because of an info
\* fetch, it leaves the fallback only after the last sub-chunk, and what it
\* holds then are the records the successful calls returned, the same records
\* the primary call returns for those offers.
C13_FallbackIsolated ==
    [][\A s \in ScanIds : \A b \in BatchIds :
          /\ Answered(s, b, "info") => tasks'[s][b].pc \in {"fallback", "attrs", "loop"}
          /\ Answered(s, b, "fallback") =>
                LET t == tasks[s][b]
                    u == tasks'[s][b]
                    chunks == chunk(t.ids, SubChunk)
                IN  /\ \A c \in DOMAIN chunks : Len(chunks[c]) \in 1..SubChunk
                    /\ u.pc # "failed"
                    /\ \/ u.infoItems = t.infoItems
                       \/ u.infoItems = t.infoItems \o InfoResp(chunks[t.k])
                    /\ IF t.k < Len(chunks)
                       THEN u.pc = "fallback" /\ u.k = t.k + 1
                       ELSE u.pc \in {"attrs", "loop"}
                    /\ \A m \in DOMAIN u.infoItems :
                          <<u.infoItems[m]>> = InfoResp(<<u.infoItems[m].offer_id>>)]_vars

\* The first sub-chunk of a batch of two failed, the second was still fetched
\* and its offer is being reconciled.
C13_Witness ==
    \E s \in ScanIds : \E b \in DOMAIN tasks[s] :
       /\ tasks[s][b].pc = "loop" /\ Len(tasks[s][b].ids) = 2
       /\ Len(tasks[s][b].infoItems) = 1
       /\ tasks[s][b].infoItems[1].offer_id = tasks[s][b].ids[2]

\* C14: in the attribute modes the failure of an attribute fetch does not make
\* processBatch throw.
C14_AttrFailureIsolated ==
    [][\A s \in ScanIds : \A b \in BatchIds :
          (AttrAware /\ Answered(s, b, "attrs")) => tasks'[s][b].pc # "failed"]_vars

\* The batch (s, b) ends in this step.
Ends(s, b) ==
    /\ b \in DOMAIN tasks[s] /\ b \in DOMAIN tasks'[s]
    /\ ~Settled(tasks[s][b]) /\ Settled(tasks'[s][b])

\* The table holds the staged row r as written at this moment.
Written(table, r) ==
    /\ table[r.offer_id].present
    /\ <<table[r.offer_id].product_id, table[r.offer_id].name, table[r.offer_id].updated_at>>
          = <<r.product_id, r.name, r.updated_at>>
    /\ table[r.offer_id].dim_hash = r.dim_hash
    /\ RowDims(table[r.offer_id]) = RowDims(r)
    /\ table[r.offer_id].last_seen_at = now

\* C15: when a batch ends, either every row it staged is in the table or the
\* table is what it was, and in both cases the rows of the offers it did not
\* stage, those committed by other batches included, are untouched.
C15_BatchAtomic ==
    [][\A s \in ScanIds : \A b \in BatchIds :
          Ends(s, b) =>
             LET rows == tasks[s][b].upserts
                 staged == {rows[n].offer_id : n \in DOMAIN rows}
             IN  /\ \/ db' = db
                    \/ \A n \in DOMAIN rows : Written(db', rows[n])
                 /\ \A o \in Offers \ staged : db'[o] = db[o]]_vars

\* The commit of a batch of two rows failed and left neither row, while the
\* other batch of the scan committed its row.
C15_Witness ==
    \E s \in ScanIds : \E b1 \in DOMAIN tasks[s] : \E b2 \in DOMAIN tasks[s] :
       /\ tasks[s][b1].pc = "failed" /\ Len(tasks[s][b1].upserts) = 2
       /\ \A n \in DOMAIN tasks[s][b1].upserts : ~db[tasks[s][b1].upserts[n].offer_id].present
       /\ tasks[s][b2].pc = "done" /\ tasks[s][b2].upserts # <<>>
       /\ \A n \in DOMAIN tasks[s][b2].upserts : db[tasks[s][b2].upserts[n].offer_id].present

\* C20: the monitoring-error notifyAll of a scan starts only out of its running
\* scanOnce, when pagination fails or the first batch throws, and is followed
\* only by the end of the turn; a scan that is over, returned or reported, is
\* never reported (again), however many of its batches throw afterwards.
C20_ReportedOnce ==
    [][\A s \in ScanIds :
          LET p == scans[s].pc
              q == scans'[s].pc
          IN  /\ (q = "report" /\ p # "report") => p \in {"paging", "batches"}
              /\ p = "report" => q \in {"report", "reported", "unreported"}
              /\ p \in {"returned", "reported", "unreported"} => q \in {p, "paging"}
              /\ (p = "paging" /\ q \notin {"paging", "batches", "returned"}) => q = "report"
              /\ (p = "batches" /\ \E b \in BatchIds : Ends(s, b) /\ tasks'[s][b].pc = "failed")
                    => q = "report"
              /\ (p = "batches" /\ q = "returned") =>
                    \A b \in DOMAIN tasks'[s] : tasks'[s][b].pc = "done"
              /\ (p = "batches" /\ q # "batches") => q \in {"report", "returned"}]_vars

\* Both batches of a scan threw and the scan was reported, once.
C20_Witness ==
    \E s \in ScanIds :
       /\ scans[s].pc = "reported"
       /\ Len(tasks[s]) = 2
       /\ tasks[s][1].pc = "failed" /\ tasks[s][2].pc = "failed"


(***************************************************************************)
(* Delivery, checked under SpecNotify.                                     *)
(***************************************************************************)
\* The recipients a call of notifyAll has tried so far, in order.
Tried(send) == [m \in DOMAIN send.log |-> send.log[m].chat]

\* One more delivery of the same call: to the next recipient of the list read at
\* the start, whatever the chats table holds by now.
OneMoreDelivery(old, new) ==
    /\ new.to = old.to
    /\ Len(new.log) = Len(old.log) + 1
    /\ SubSeq(new.log, 1, Len(old.log)) = old.log
    /\ new.log[Len(new.log)].chat = old.to[Len(new.log)]

\* C17: notifyAll reads the recipients once, when it is called, and tries each
\* of them exactly once and in order, whichever deliveries fail and whoever
\* subscribes meanwhile.  The call ends normally when all were tried, and throws
\* only before the first delivery, never because of a delivery.  After a call
\* made by processBatch ends, the batch goes on: it stages the row of the offer
\* (or sends the offer's second message first).  The same holds for the call in
\* the catch of the scan.
C17_EveryRecipientOnce ==
    [][\A s \in ScanIds :
         /\ \A b \in BatchIds :
              (b \in DOMAIN tasks[s] /\ b \in DOMAIN tasks'[s] /\ tasks'[s][b] # tasks[s][b]) =>
                 LET t == tasks[s][b]
                     u == tasks'[s][b]
                     stays == t.pc = "notify" /\ u.pc = "notify" /\ u.note = t.note
                 IN  /\ (u.pc = "notify" /\ ~stays) =>
                            u.send = [to |-> chats, j |-> 1, log |-> <<>>]
                     /\ stays => OneMoreDelivery(t.send, u.send) /\ u.upserts = t.upserts
                     /\ (t.pc = "notify" /\ ~stays) =>
                            IF u.pc = "failed" THEN t.send.log = <<>>
                            ELSE /\ Tried(t.send) = t.send.to
                                 /\ \/ u.pc = "notify" /\ u.note.offer_id = t.note.offer_id
                                    \/ /\ u.upserts # <<>>
                                       /\ u.upserts[Len(u.upserts)].offer_id = t.note.offer_id
                                       /\ SubSeq(u.upserts, 1, Len(u.upserts) - 1) = t.upserts
         /\ LET p == scans[s]
                q == scans'[s]
            IN  /\ (q.pc = "report" /\ p.pc # "report") =>
                       q.send = [to |-> chats, j |-> 1, log |-> <<>>]
                /\ (p.pc = "report" /\ q.pc = "report" /\ q # p) => OneMoreDelivery(p.send, q.send)
                /\ (p.pc = "report" /\ q.pc = "reported") => Tried(p.send) = p.send.to
                /\ (p.pc = "report" /\ q.pc = "unreported") => p.send.log = <<>>]_vars

\* A batch has committed the row of o1 after a call of notifyAll in which the
\* delivery to chat 1 failed, the one to chat 3 succeeded, and chat 2, which
\* subscribed during the call, was not tried.
C17_Witness ==
    \E s \in ScanIds : \E b \in DOMAIN tasks[s] :
        /\ tasks[s][b].pc = "done"
        /\ tasks[s][b].send.log = <<[chat |-> 1, ok |-> FALSE], [chat |-> 3, ok |-> TRUE]>>
        /\ chats = <<1, 2, 3>>
        /\ db["o1"].updated_at = "t1"


(***************************************************************************)
(* Pagination, checked under SpecPage and SpecPageFair.                    *)
(***************************************************************************)
\* C18: the first page request of a scan carries the empty cursor.  When the
\* response to a request is read, a further request is sent if and only if the
\* page was not empty, the server returned a cursor and no allow-list is
\* configured; that request carries the cursor just returned, and otherwise the
\* scan goes on to its batches or returns.  With an allow-list the first
\* response ends the pagination: one page a scan.  Between two reads the cursor
\* of the request under way does not change.
C18_PageProtocol ==
    [][\A s \in ScanIds :
         LET p == scans[s]
             q == scans'[s]
         IN  /\ (q.pc = "paging" /\ p.pc # "paging") => (q.last_id = "" /\ q.page = NoPage)
             /\ (p.pc = "paging" /\ p.page # NoPage /\ q # p) =>
                    LET r == p.page[1]
                    IN  /\ (q.pc = "paging") <=>
                              (r.items # <<>> /\ r.last_id # "" /\ TRACK_OFFER_IDS = <<>>)
                        /\ (q.pc = "paging") => (q.last_id = r.last_id /\ q.page = NoPage)
                        /\ (q.pc # "paging") => q.pc \in {"batches", "returned"}
                        /\ (TRACK_OFFER_IDS # <<>>) => q.pc # "paging"
             /\ (p.pc = "paging" /\ p.page = NoPage /\ q.pc = "paging") => q.last_id = p.last_id]_vars

\* A scan without an allow-list has read a page with an offer and the cursor
\* "o3" and has sent its next request with that cursor.
C18_Witness ==
    \E s \in ScanIds :
        /\ TRACK_OFFER_IDS = <<>>
        /\ scans[s].pc = "paging" /\ scans[s].page = NoPage
        /\ scans[s].last_id = "o3" /\ scans[s].offers = <<"o1">>

\* C19: every scan that is requesting pages stops doing so: it goes on to its
\* batches, returns, or throws.
C19_PagingEnds ==
    \A s \in ScanIds :
        (scans[s].pc = "paging") ~> (scans[s].pc \in {"batches", "returned", "report"})


(***************************************************************************)
(* The batches of a scan, checked under SpecPage.                          *)
(***************************************************************************)
\* The processBatch calls of a scan that have started and not settled.
InProgress(s) == {b \in DOMAIN tasks[s] : tasks[s][b].pc \notin {"queued", "done", "failed"}}

\* C16: at every moment at most Concurrency (2) processBatch calls of a scan are
\* in progress and every batch holds between 1 and BatchSize (1000) offer ids.
\* The batches a scan starts with are the chunks of its paginated offer list, in
\* order.  A batch that has started is never started again: it does not go back
\* to the queue or to its first request.
C16_BoundedBatches ==
    /\ [](\A s \in ScanIds :
            /\ Cardinality(InProgress(s)) <= Concurrency
            /\ \A b \in DOMAIN tasks[s] :
                  Len(tasks[s][b].ids) >= 1 /\ Len(tasks[s][b].ids) <= BatchSize)
    /\ [][\A s \in ScanIds :
            /\ (scans'[s].pc = "batches" /\ scans[s].pc # "batches") =>
                   [b \in DOMAIN tasks'[s] |-> tasks'[s][b].ids]
                       = chunk(scans'[s].offers, BatchSize)
            /\ \A b \in PagedBatchIds :
                  (b \in DOMAIN tasks[s] /\ b \in DOMAIN tasks'[s]) =>
                     /\ tasks'[s][b].ids = tasks[s][b].ids
                     /\ (tasks[s][b].pc # "queued") => tasks'[s][b].pc # "queued"
                     /\ (tasks'[s][b].pc = "info") => tasks[s][b].pc \in {"queued", "info"}]_vars

\* Three batches: the first has returned, and the third, which had to wait, is
\* in progress together with the second.
C16_Witness ==
    \E s \in ScanIds :
        /\ Len(tasks[s]) = 3
        /\ tasks[s][1].pc = "done"
        /\ InProgress(s) = {2, 3}


(***************************************************************************)
(* Termination signals, checked under SpecSignal.                          *)
(***************************************************************************)
\* C21: once main.js has received SIGINT or SIGTERM, tick is not invoked again
\* and no scan starts, whenever the signal arrived.
C21_NoTickAfterSignal ==
    [][(\E sig \in Signals : hist.signals[sig] # "no") =>
          /\ now' = now
          /\ \A s \in ScanIds : scans'[s].pc = "paging" => scans[s].pc = "paging"]_vars


(***************************************************************************)
(* The helper functions, checked under SpecPure.                           *)
(***************************************************************************)
\* The candidate read from the direct fields of an info record.
DirectCandidate(it) ==
    Dims(mm(it.depth, it.dimension_unit), mm(it.width, it.dimension_unit),
         mm(it.height, it.dimension_unit), grams(it.weight, it.weight_unit))

\* The candidate read from its nested dimensions object.
NestedCandidate(it) == IF it.dimensions = Null THEN NullDims ELSE maybe(it.dimensions[1])

\* C22: extractDims returns the direct-fields candidate whole when any of its four
\* values is non-null, whatever the nested object says, and the nested candidate
\* only when all four direct values are null; never a field-wise mix.
C22_DirectWins ==
    (calc.fn = "extractDims" /\ calc.done) =>
        IF HasAny(DirectCandidate(calc.it)) THEN calc.out = DirectCandidate(calc.it)
        ELSE calc.out = NestedCandidate(calc.it)

\* A record whose only direct value is the weight and whose nested object has
\* all four values: the result has the direct weight and nothing else.
C22_Witness ==
    /\ calc.fn = "extractDims" /\ calc.done
    /\ calc.it.depth = Null /\ calc.it.weight = Some(300)
    /\ NestedCandidate(calc.it) = Dims(Some(70), Some(80), Some(90), Some(10))
    /\ calc.out = Dims(Null, Null, Null, Some(300))

\* The absent and unparseable source values.
Unparseable == {Null, Str(""), Str(" "), Str("abc")}

\* C24: mm and grams map every absent or unparseable source value (null, an
\* empty or blank string, a non-numeric string) to null, and return 0 only for
\* the number zero or a numeric string that denotes zero.
C24_AbsentIsNull ==
    (calc.fn \in {"mm", "grams"} /\ calc.done) =>
        /\ calc.val \in Unparseable => calc.out = Null
        /\ calc.out = Some(0) => calc.val \in {Some(0), Str("0")}


(***************************************************************************)
(* The choice of dimensions in main.js, checked under Spec.                *)
(***************************************************************************)
\* The dimensions among the root fields of the attributes item the batch fetched
\* for the offer; all null when it fetched none.
AttrCandidate(t, offer_id) == extractDimsFromAttrsRoot(AttrsOf(t, offer_id))

\* The dimensions of the bulk-info record the batch fetched for the offer.
InfoCandidate(t, offer_id) == extractDims(PayloadOf(mainInfo(t, offer_id)))

\* C23: every row main.js stages carries the dimensions of the attributes item
\* when that candidate has a non-null field, and those of the bulk-info record
\* only when all four fields of the attributes candidate are null; the row's
\* fingerprint is the one of these dimensions.
C23_AttrDimsPreferred ==
    [][\A s \in ScanIds : \A b \in BatchIds :
          (/\ impl = "main"
           /\ b \in DOMAIN tasks[s] /\ b \in DOMAIN tasks'[s]
           /\ Len(tasks'[s][b].upserts) = Len(tasks[s][b].upserts) + 1) =>
              LET t == tasks[s][b]
                  o == t.ids[t.i]
                  ac == AttrCandidate(t, o)
                  chosen == IF HasAny(ac) THEN ac ELSE InfoCandidate(t, o)
              IN  /\ Staged(s, b).offer_id = o
                  /\ RowDims(Staged(s, b)) = chosen
                  /\ Staged(s, b).dim_hash = sizeFingerprint(chosen)]_vars

\* main.js has staged a row with the depth of the attributes item, 130 mm, and
\* no width, although the bulk-info record of the offer has a width.
C23_Witness ==
    /\ impl = "main"
    /\ \E s \in ScanIds : \E b \in DOMAIN tasks[s] :
          /\ tasks[s][b].upserts # <<>>
          /\ tasks[s][b].upserts[1].depth_mm = Some(130)
          /\ tasks[s][b].upserts[1].width_mm = Null
          /\ InfoCandidate(tasks[s][b], tasks[s][b].upserts[1].offer_id).width_mm # Null


(***************************************************************************)
(* The fingerprints, checked under SpecPure.                               *)
(***************************************************************************)
FieldwiseEqual(a, b) == \A k \in DimFields : Field(a, k) = Field(b, k)

Count(x, vs) == Cardinality({k \in 1..Len(vs) : vs[k] = x})

\* u and v hold the same values, each as often, in some order.
IsPermutation(u, v) ==
    /\ Len(u) = Len(v)
    /\ \A k \in 1..Len(u) : Count(u[k], u) = Count(u[k], v)

\* The two lists name the same attributes in the same order, and differ at most
\* in the order of the values inside an attribute.
SameUpToValueOrder(a, b) ==
    /\ Len(a) = Len(b)
    /\ \A k \in 1..Len(a) :
          /\ a[k].name = b[k].name
          /\ a[k].attribute_id = b[k].attribute_id
          /\ IsPermutation(a[k].values, b[k].values)

\* C25: sizeFingerprint is the same for two dimension records that are equal
\* field by field, a missing field counting as null; attrFingerprint is the same
\* for two lists that differ only in the order of the values inside an attribute
\* and differs for any other two lists, such as the same attributes in another
\* order.
C25_FingerprintEquality ==
    /\ (calc.fn = "sizeFingerprint" /\ calc.done) =>
           (FieldwiseEqual(calc.a, calc.b) => calc.out[1] = calc.out[2])
    /\ (calc.fn = "attrFingerprint" /\ calc.done) =>
           (SameUpToValueOrder(calc.a, calc.b) <=> calc.out[1] = calc.out[2])

\* Two lists that differ in the order of the values of their first attribute
\* have been fingerprinted alike.
C25_Witness ==
    /\ calc.fn = "attrFingerprint" /\ calc.done
    /\ calc.a # calc.b /\ calc.a # <<>>
    /\ calc.a[1].values = <<"M", "L">>
    /\ SameUpToValueOrder(calc.a, calc.b)
    /\ calc.out[1] = calc.out[2]


(***************************************************************************)
(* The fingerprint of a stored row, checked under Spec.                    *)
(***************************************************************************)
SelfConsistent(r) == r.dim_hash = sizeFingerprint(RowDims(r))

\* C26: every row the engine stages or has written carries the fingerprint of
\* its own depth, width, height and weight: dim_hash = sizeFingerprint of the
\* row's four dimensions, on first observation, on the fast path and on
\* recomputation, in both implementations.
C26_HashOfOwnDims ==
    /\ \A o \in Offers : db[o].present => SelfConsistent(db[o])
    /\ \A s \in ScanIds : \A b \in DOMAIN tasks[s] :
          \A k \in DOMAIN tasks[s][b].upserts : SelfConsistent(tasks[s][b].upserts[k])

\* index.js has written a row through the fast path: the row was seen in this
\* run, its updated_at is the remote one, and its dimensions and fingerprint are
\* not those of the record the server now serves.
C26_Witness ==
    /\ impl = "index" /\ mode = "DIMENSIONS"
    /\ \E o \in Offers :
          /\ db[o].present /\ db[o].last_seen_at > 0
          /\ db[o].updated_at = remote[o].t
          /\ RowDims(db[o]) # extractDims(PayloadOf([offer_id |-> o, p |-> remote[o].p,
                                                      updated_at |-> remote[o].t]))
          /\ HasAny(RowDims(db[o]))
          /\ SelfConsistent(db[o])


(***************************************************************************)
(* Scanning unchanged remote data again, checked under SpecTwice.          *)
(***************************************************************************)
\* The scan in slot s is not the first of the run: an earlier scan has completed.
Rescan(s) == scans[s].seq >= 1

\* The row r2 is the row r, possibly seen later.
SameButSeen(r, r2) == [r2 EXCEPT !.last_seen_at = r.last_seen_at] = r

\* C27: when a scan has completed without error and the next scan receives the
\* same catalog, detail and attribute responses, no step of that next scan
\* prepares a dimension-change or attribute-change notification, and its commits
\* leave every stored field but last_seen_at as it was; no row appears.
C27_RescanChangesNothing ==
    [][\A s \in ScanIds :
          (Rescan(s) /\ tasks'[s] # tasks[s]) =>
             /\ \A b \in DOMAIN tasks'[s] : tasks'[s][b].note.kind \notin {"dim", "attr"}
             /\ \A o \in Offers : SameButSeen(db[o], db'[o])]_vars


(***************************************************************************)
(* index.js without the size attributes of an offer, checked under Spec.   *)
(***************************************************************************)
\* The batch holds no attributes item for the offer: the fetch for its group
\* failed or the response had no item for it.
NoAttrsFor(t, offer_id) == AttrsOf(t, offer_id) = NoAttrItem

\* The step prepares an attribute-change notification in the batch (s, b).
SendsAttr(s, b) ==
    /\ b \in DOMAIN tasks[s] /\ b \in DOMAIN tasks'[s]
    /\ tasks'[s][b].note.kind = "attr" /\ tasks'[s][b].note # tasks[s][b].note

\* C28: in index.js in ATTRIBUTE or BOTH mode, for an offer with a stored row
\* whose attributes item the batch did not fetch, no attribute-change
\* notification is prepared and the row staged for the offer carries the stored
\* attr_hash.
C28_NoItemKeepsAttrHash ==
    [][\A s \in ScanIds : \A b \in BatchIds :
          /\ (impl = "index" /\ SendsAttr(s, b)) =>
                ~NoAttrsFor(tasks[s][b], tasks'[s][b].note.offer_id)
          /\ (/\ impl = "index" /\ AttrAware
              /\ b \in DOMAIN tasks[s] /\ b \in DOMAIN tasks'[s]
              /\ Len(tasks'[s][b].upserts) = Len(tasks[s][b].upserts) + 1
              /\ db[Staged(s, b).offer_id].present
              /\ NoAttrsFor(tasks[s][b], Staged(s, b).offer_id)) =>
                Staged(s, b).attr_hash = db[Staged(s, b).offer_id].attr_hash]_vars

====
